---- MODULE Spec2Model ----
(***************************************************************************)
(* A model of the seeded pseudo-random engines (Xorshift32,                *)
(* Xorshift128Plus), the PerlinNoise permutation table built from them and *)
(* the Vector3Builder value type of ScriptUtils.                           *)
(*                                                                         *)
(* Machine words are held as the set of their 1-bit positions: a 32-bit    *)
(* word is a subset of 0..31, a 64-bit word a subset of 0..63, and an      *)
(* unbounded bigint a finite set of naturals.  XOR is symmetric            *)
(* difference, a shift moves the positions, a mask intersects.  This keeps *)
(* every width exact although the integers of TLC are 32-bit.               *)
(***************************************************************************)
EXTENDS Integers, Sequences, FiniteSets, TLC

(***************************************************************************)
(* Bounds of the model.                                                    *)
(***************************************************************************)
\* how many draw calls one behaviour of the engine specification makes
MaxDraws == 3
\* the values the ambient entropy source (Math.random) may yield are 0..MaxAmbient
MaxAmbient == 1
\* the integers a vector component may hold are -MaxMag..MaxMag
MaxMag == 2
\* how many calls one behaviour of the vector specification makes
MaxVecCalls == 2
\* how many draws the engine has made, at most, before a PerlinNoise is built from it
MaxPreDraws == 3
\* how many noise3 queries one behaviour of the noise specification makes
MaxQueries == 1
\* two instances used apart: how many calls are made on each engine
MaxPairCalls == 2
\* two instances used apart: how many draws each engine has made, at most, before a
\* PerlinNoise is built from it
MaxPairPreDraws == 1
\* two instances used apart: how many noise3 queries are made on the noise of A
MaxRepeats == 2
\* how many calls one behaviour of the range specification makes on its range
MaxClamps == 2
\* how many calls one behaviour of the Random specification makes
MaxRandomCalls == 2
\* how many calls one behaviour of the rotation specification makes
MaxRotSteps == 5
\* the integers a rotation may hold are -MaxAngle..MaxAngle
MaxAngle == 180
\* how many calls one behaviour of the DualAxisRotationBuilder specification makes
MaxDualCalls == 3

VARIABLES
    type,       \* which engine class the two instances are: "Xorshift32" | "Xorshift128Plus"
    seedA,      \* constructor arguments of instance A
    seedB,      \* constructor arguments of instance B
    genA,       \* fields of instance A
    genB,       \* fields of instance B
    call,       \* the last call made on both instances: [op, range] (two instances
                \* used apart: the last call made on instance A)
    outA,       \* what the last call returned on A
    outB,       \* what the last call returned on B
    draws,      \* calls made since construction (two instances used apart: on
                \* instance A)
    vec,        \* components of the Vector3Builder: [x, y, z]
    prev,       \* its components before the last call on it
    vop,        \* name of the last call on it
    thrown,     \* did the last call on it throw
    nanOperand, \* was an operand of the last call on it NaN
    vcalls,     \* calls made on it since construction
    arg,        \* the vector passed to the last call of operate, add or subtract
    argAfter,   \* that vector object after the call
    lastAdd,    \* when the call before the last one was an add that returned:
                \* the vector before it and the vector it was passed
    crossed,    \* when the last call was a.cross(b): what it returned, and what
                \* b.cross(a).invert() returned on copies of b and a
    built,      \* has the PerlinNoise been constructed (from instance A)
    permutation,\* its table: entry i of the array is permutation[i + 1]
    offset,     \* its offset, as the three draws it is computed from
    permutationB, \* the table of the PerlinNoise constructed from instance B
    offsetB,    \* the offset of the PerlinNoise constructed from instance B
    query,      \* the last noise3 query: [point, frequency, amplitude]
    noiseA,     \* what the last noise3 query returned on the noise of A
    noiseB,     \* what the last noise3 query returned on the noise of B
    pointA,     \* the point object passed to the noise of A, after the call
    firstQuery, \* two instances used apart: the first noise3 query made on the
                \* noise of A
    firstNoise, \* what it returned
    queries,    \* noise3 queries made
    lookups,    \* the indices the last query on the noise of A read this.permutation at
    drawsB,     \* two instances used apart: calls made on instance B
    scriptA,    \* two instances used apart: the calls made on A since it was
                \* constructed, in order, each with what it returned
    scriptB,    \* the same for B
    builtB,     \* has the PerlinNoise of instance B been constructed
    queryB,     \* the last noise3 query on the noise of B
    queriesB,   \* noise3 queries made on the noise of B
    factoryB,   \* was instance B made by the static random() of its class
    ranged,     \* the range a static constructor of a range class was asked for
    rangeOp,    \* name of the last call on it
    clampIn,    \* the value passed to that call
    clampOut,   \* what that call returned
    clamps,     \* calls made on it
    version,    \* which copy of class Random is constructed
    rop,        \* name of the last call on the Random
    rin,        \* its arguments
    rout,       \* what it returned, the draws it made, its argument after the call
    genBefore,  \* the engine when the call was made
    rcalls,     \* calls made on the Random
    heap,       \* the TripleAxisRotationBuilder objects: heap[1] is the source rotation
    system,     \* the __rotation__ of the ObjectCoordsSystem derived last: an index
                \* of heap, 0 before any is derived
    forwarded,  \* the rotation the last forward() returned: an index of heap, or 0
    snapshot,   \* yaw, pitch and roll of the source when the system was derived
    rotOp,      \* name of the last call
    rotThrown,  \* did it throw
    touched,    \* has a rotation returned by forward() been written to since the
                \* system was derived
    rotSteps,   \* calls made
    dual,       \* yaw and pitch of the DualAxisRotationBuilder
    dualPrev,   \* its yaw and pitch before the last call on it
    dualOp,     \* name of the last call on it
    dualThrown, \* did the last call on it throw
    dualArg,    \* the object passed to the last call of add or subtract
    dualArgAfter, \* that object after the call
    dualLastAdd, \* when the call before the last one was an add that returned:
                \* the rotation before it and the object it was passed
    dualCalls,   \* calls made on it since construction
    entries,    \* the entries of the registry, in insertion order
    regOp,      \* the last call on the registry
    regId,      \* its identifier argument
    regValue,   \* its value argument (register)
    regThrown,  \* did it throw
    regOut,     \* what it returned
    registered, \* history: per identifier, the value of its last successful register not yet unregistered
    regCalls,   \* calls made
    hiddenPrototypes, \* Serializer.hiddenPrototypes
    serOp,      \* the last call on the serializer
    serArg,     \* its argument (a class, or an object for getPrototypeOf)
    serThrown,  \* did it throw
    serOut,     \* what getPrototypeOf returned
    serPrev,    \* the call before the last: its name and argument
    serCalls   \* calls made

rngVars == <<type, seedA, seedB, genA, genB, call, outA, outB, draws>>
vecVars == <<vec, prev, vop, thrown, nanOperand, vcalls, arg, argAfter, lastAdd, crossed>>
pairVars == <<drawsB, scriptA, scriptB, builtB, queryB, queriesB, factoryB>>
noiseVars ==
    <<built, permutation, offset, permutationB, offsetB,
      query, noiseA, noiseB, pointA, firstQuery, firstNoise, queries, lookups, pairVars>>
rangeVars == <<ranged, rangeOp, clampIn, clampOut, clamps>>
facadeVars == <<version, rop, rin, rout, genBefore, rcalls>>
rotVars == <<heap, system, forwarded, snapshot, rotOp, rotThrown, touched, rotSteps>>
dualVars ==
    <<dual, dualPrev, dualOp, dualThrown, dualArg, dualArgAfter, dualLastAdd, dualCalls>>
regVars == <<entries, regOp, regId, regValue, regThrown, regOut, registered, regCalls>>
serVars == <<hiddenPrototypes, serOp, serArg, serThrown, serOut, serPrev, serCalls>>
vars == <<rngVars, vecVars, noiseVars, rangeVars, facadeVars, rotVars, dualVars, regVars, serVars>>

(***************************************************************************)
(* Bit-level arithmetic.                                                   *)
(***************************************************************************)
\* 2^n by repeated squaring
RECURSIVE Pow2(_)
Pow2(n) ==
    IF n = 0 THEN 1
    ELSE LET h == Pow2(n \div 2)
         IN IF n % 2 = 0 THEN h * h ELSE 2 * h * h

\* bit i (0..30) of a natural number n < 2^31
NatBit(n, i) == (n \div Pow2(i)) % 2 = 1

\* ToInt32/ToUint32 image of an integer n in -2^31 .. 2^31-1, as bit positions
\* (two's complement: bit i of a negative n is the complement of bit i of -(n+1))
ToInt32(n) ==
    IF n >= 0 THEN {i \in 0..30 : NatBit(n, i)}
    ELSE {31} \cup {i \in 0..30 : ~NatBit(-(n + 1), i)}

\* a ^ b
Xor(a, b) == (a \ b) \cup (b \ a)

\* the positions of a moved up by k (a << k, before any truncation)
Shl(a, k) == {i + k : i \in a}

\* the positions of a moved down by k (a >> k of a non-negative value, a >>> k)
Shr(a, k) == {i - k : i \in {j \in a : j >= k}}

\* the largest bit position of a non-empty word
TopBit(a) == CHOOSE i \in a : a \subseteq 0..i

\* One step of Horner's rule modulo m + 1: (2r + b) % (m + 1) for 0 <= r <= m,
\* written so that no intermediate exceeds m
ModStep(r, b, m) ==
    LET d == m - r - b
    IN IF r > d THEN r - (d + 1) ELSE r + r + b

\* Horner's rule over bits hi, hi-1, .., lo of a, starting from remainder r;
\* the span is halved at each level so that the evaluation stays shallow
RECURSIVE ModSpan(_, _, _, _, _)
ModSpan(a, hi, lo, m, r) ==
    IF hi = lo THEN ModStep(r, IF hi \in a THEN 1 ELSE 0, m)
    ELSE LET mid == (hi + lo + 1) \div 2
             t == ModSpan(a, hi, mid, m, r)
         IN \* (the guard has the upper half computed before the lower one starts)
            IF t > m THEN t ELSE ModSpan(a, mid - 1, lo, m, t)

\* value(a) % (m + 1) for m >= 0
Mod(a, m) == IF a = {} THEN 0 ELSE ModSpan(a, TopBit(a), 0, m, 0)

\* a + b on bits lo..hi with carry-in cin: the sum bits and the carry out
RECURSIVE AddSpan(_, _, _, _, _)
AddSpan(a, b, lo, hi, cin) ==
    IF lo = hi
    THEN LET t == (IF lo \in a THEN 1 ELSE 0) + (IF lo \in b THEN 1 ELSE 0) + cin
         IN [bits |-> IF t % 2 = 1 THEN {lo} ELSE {}, carry |-> t \div 2]
    ELSE LET mid == (lo + hi) \div 2
             l == AddSpan(a, b, lo, mid, cin)
             h == AddSpan(a, b, mid + 1, hi, l.carry)
         IN [bits |-> l.bits \cup h.bits, carry |-> h.carry]

\* a + b on bit sets, exact (the result may be one bit longer)
Add(a, b) ==
    IF a = {} THEN b
    ELSE IF b = {} THEN a
    ELSE LET ta == TopBit(a)
             tb == TopBit(b)
             top == IF ta > tb THEN ta ELSE tb
             r == AddSpan(a, b, 0, top, 0)
         IN r.bits \cup (IF r.carry = 1 THEN {top + 1} ELSE {})

\* a - 1 for a # 0
Dec(a) == LET k == CHOOSE i \in a : (a \cap (0..i)) = {i}
          IN (a \ {k}) \cup (0..(k - 1))

(***************************************************************************)
(* IntRange: a closed interval of integers, min <= max.                    *)
(***************************************************************************)
IntRangeMinMax(min, max) == [min |-> min, max |-> max]


(***************************************************************************)
(* Arbitrary-precision integers (bigint): a sign and the bit positions of  *)
(* the magnitude; zero is [neg |-> FALSE, mag |-> {}].                     *)
(***************************************************************************)
BigInt(neg, mag) == [neg |-> neg /\ mag # {}, mag |-> mag]

\* a >= b on non-negative bit sets
Geq(a, b) == LET d == Xor(a, b) IN d = {} \/ TopBit(d) \in a

\* a - b on non-negative bit sets, a >= b (add the complement and one, drop the carry)
Sub(a, b) ==
    IF b = {} THEN a
    ELSE LET w == TopBit(a) + 1
         IN Add(Add(a, (0..(w - 1)) \ b), {0}) \ {w}

\* one step of binary long division by n: 2r + b reduced below n
ModBigStep(r, b, n) ==
    LET r1 == Shl(r, 1) \cup (IF b THEN {0} ELSE {})
    IN IF Geq(r1, n) THEN Sub(r1, n) ELSE r1

RECURSIVE ModBigSpan(_, _, _, _, _)
ModBigSpan(a, hi, lo, n, r) ==
    IF hi = lo THEN ModBigStep(r, hi \in a, n)
    ELSE LET mid == (hi + lo + 1) \div 2
             t == ModBigSpan(a, hi, mid, n, r)
         IN \* (the guard has the upper half computed before the lower one starts)
            IF Geq(t, n) THEN t ELSE ModBigSpan(a, mid - 1, lo, n, t)

\* a % n on non-negative bit sets, n # 0
ModBig(a, n) == IF a = {} THEN {} ELSE ModBigSpan(a, TopBit(a), 0, n, {})

\* a + b and a - b on bigints
BigIntAdd(a, b) ==
    IF a.neg = b.neg THEN BigInt(a.neg, Add(a.mag, b.mag))
    ELSE IF Geq(a.mag, b.mag) THEN BigInt(a.neg, Sub(a.mag, b.mag))
    ELSE BigInt(b.neg, Sub(b.mag, a.mag))

BigIntSub(a, b) == BigIntAdd(a, BigInt(~b.neg, b.mag))

\* a BigIntRange as bigint(range) reads it: what getMin() and getMax() return,
\* min <= max
BigIntRangeMinMax(min, max) == [min |-> min, max |-> max]

(***************************************************************************)
(* Xorshift32: four 32-bit words x, y, z, w.  Every read of a word in      *)
(* next() goes through ^, << or >>>, which use its ToInt32 image, so the   *)
(* words are held as that image.                                           *)
(***************************************************************************)
Xorshift32X == 123456789
Xorshift32Y == 362436069
Xorshift32Z == 521288629

\* the low 32 bits of a shifted value (the result of << is an int32)
Int32(a) == a \cap (0..31)

Xorshift32New(seed) ==
    [type |-> "Xorshift32",
     w |-> ToInt32(seed), x |-> ToInt32(Xorshift32X),
     y |-> ToInt32(Xorshift32Y), z |-> ToInt32(Xorshift32Z)]

\* w - IntRange.INT32_MAX_RANGE.getMin() = int32(w) + 2^31: the unsigned
\* reading of w with bit 31 flipped, a value in 0 .. 2^32-1
MinusInt32Min(w) == Xor(w, {31})

\* a faulty variant: x << 11 is not cut to 32 bits
Xorshift32NextWide(g) ==
    LET t == Xor(g.x, Shl(g.x, 11))
        w == Xor(Xor(g.w, Shr(g.w, 19)), Xor(t, Shr(t, 8)))
    IN [gen |-> [type |-> "Xorshift32", w |-> w, x |-> g.y, y |-> g.z, z |-> g.w],
        value |-> MinusInt32Min(w)]

\* next(): the new state and the returned value (as bit positions)
Xorshift32Next(g) ==
    LET t == Xor(g.x, Int32(Shl(g.x, 11)))
        w == Xor(Xor(g.w, Shr(g.w, 19)), Xor(t, Shr(t, 8)))
    IN [gen |-> [type |-> "Xorshift32", w |-> w, x |-> g.y, y |-> g.z, z |-> g.w],
        value |-> MinusInt32Min(w)]

\* a faulty variant: the modulus forgets to subtract min: next() % (max + 1) + min
Xorshift32IntModMax(g, range) ==
    LET n == Xorshift32Next(g)
    IN [gen |-> n.gen, value |-> Mod(n.value, range.max) + range.min]

\* int(range): next() % (max - min + 1) + min
Xorshift32Int(g, range) ==
    LET n == Xorshift32Next(g)
    IN [gen |-> n.gen, value |-> Mod(n.value, range.max - range.min) + range.min]

\* decimal(range): (next() / UINT32_MAX) * (max - min) + min.  The real result is
\* kept as its three exact ingredients: it is num / den * span + base.
Xorshift32Decimal(g, range) ==
    LET n == Xorshift32Next(g)
    IN [gen |-> n.gen,
        value |-> [num |-> n.value, den |-> 0..31,
                   span |-> range.max - range.min, base |-> range.min]]

(***************************************************************************)
(* Xorshift128Plus: two 64-bit words s[0], s[1] (fields s0, s1).           *)
(***************************************************************************)
WarmUp == 4

\* value & ((1n << 64n) - 1n) for a bigint of either sign (two's complement:
\* the low 64 bits of -m are the complement of those of m - 1)
Mask64(v) == IF v.neg THEN (0..63) \ Dec(v.mag) ELSE v.mag \cap (0..63)

\* extract64 on a non-negative value
extract64(a) == a \cap (0..63)

Xorshift128PlusNext(g) ==
    LET s1 == g.s0
        s0 == g.s1
        a == Xor(s1, extract64(Shl(s1, 23)))
        b == Xor(a, extract64(Shr(a, 18)))
        c == Xor(b, s0)
        d == Xor(c, extract64(Shr(s0, 5)))
    IN [gen |-> [type |-> "Xorshift128Plus", s1 |-> d, s0 |-> s0],
        value |-> Add(s0, d)]

\* a faulty variant: no correction of the (0,0) seed
Xorshift128PlusSeededNoFix(seed0, seed1) ==
    [type |-> "Xorshift128Plus", s1 |-> Mask64(seed1), s0 |-> Mask64(seed0)]

\* the state the constructor seeds, before its warm-up draws
Xorshift128PlusSeeded(seed0, seed1) ==
    LET one == BigInt(FALSE, {0})
        sd1 == IF seed0.mag = {} /\ seed1.mag = {} THEN one ELSE seed1
    IN [type |-> "Xorshift128Plus", s1 |-> Mask64(sd1), s0 |-> Mask64(seed0)]

RECURSIVE Discard(_, _)
Discard(g, n) == IF n = 0 THEN g ELSE Discard(Xorshift128PlusNext(g).gen, n - 1)

\* a faulty variant: a constructor that discards no draw
Xorshift128PlusNewNoWarmUp(seed0, seed1) == Xorshift128PlusSeeded(seed0, seed1)

\* the constructor: seed, then discard WarmUp draws
Xorshift128PlusNew(seed0, seed1) == Discard(Xorshift128PlusSeeded(seed0, seed1), WarmUp)

\* bigint(range): value % (range.getMax() - range.getMin() + 1n) + range.getMin().
\* The value of next() is not negative and the divisor is positive, so the
\* remainder is the non-negative one; the sum with min is a signed sum.
Xorshift128PlusBigint(g, range) ==
    [gen |-> Xorshift128PlusNext(g).gen,
     value |-> BigIntAdd(BigInt(FALSE,
                                ModBig(Xorshift128PlusNext(g).value,
                                       BigIntAdd(BigIntSub(range.max, range.min),
                                                 BigInt(FALSE, {0})).mag)),
                         range.min)]

\* int(range): Number(this.bigint(range.toBigInt())).  Both conversions are exact
\* on the integers of an IntRange, so the remainder and the sum of bigint are
\* taken on the integers themselves.
Xorshift128PlusInt(g, range) ==
    LET n == Xorshift128PlusNext(g)
    IN [gen |-> n.gen, value |-> Mod(n.value, range.max - range.min) + range.min]

\* 10n ** 10n as bit positions
Scale == {10, 13, 14, 15, 16, 17, 19, 26, 28, 30, 33}

\* decimal(range): ratio = Number(bigint([0, scale]) * scale / scale) / Number(scale),
\* result ratio * (max - min) + min, kept as num / den * span + base; bigint on
\* [0, scale] is next() % (scale - 0n + 1n) + 0n
Xorshift128PlusDecimal(g, range) ==
    LET n == Xorshift128PlusNext(g)
        q == ModBig(n.value, Add(Sub(Scale, {}), {0}))
    IN [gen |-> n.gen,
        value |-> [num |-> q, den |-> Scale,
                   span |-> range.max - range.min, base |-> range.min]]

(***************************************************************************)
(* The RandomNumberGenerator capability, as a caller sees it.  A call is   *)
(* [op |-> "next" | "int" | "decimal", range |-> IntRange]; every          *)
(* JavaScript function can read Math.random, so the value it would yield   *)
(* is passed along: no draw path of either engine uses it.  The bigint     *)
(* method of Xorshift128Plus is no part of the capability.                 *)
(***************************************************************************)
\* a faulty variant: int() takes its raw value from the ambient source instead of next()
DrawAmbient(g, c, ambient) ==
    IF g.type = "Xorshift32"
    THEN CASE c.op = "next" -> Xorshift32Next(g)
           [] c.op = "int" ->
                [gen |-> Xorshift32Next(g).gen,
                 value |-> Mod(ToInt32(ambient), c.range.max - c.range.min) + c.range.min]
           [] c.op = "decimal" -> Xorshift32Decimal(g, c.range)
    ELSE CASE c.op = "next" -> Xorshift128PlusNext(g)
           [] c.op = "int" ->
                [gen |-> Xorshift128PlusNext(g).gen,
                 value |-> Mod(ToInt32(ambient), c.range.max - c.range.min) + c.range.min]
           [] c.op = "decimal" -> Xorshift128PlusDecimal(g, c.range)

Draw(g, c, ambient) ==
    IF g.type = "Xorshift32"
    THEN CASE c.op = "next" -> Xorshift32Next(g)
           [] c.op = "int" -> Xorshift32Int(g, c.range)
           [] c.op = "decimal" -> Xorshift32Decimal(g, c.range)
    ELSE CASE c.op = "next" -> Xorshift128PlusNext(g)
           [] c.op = "int" -> Xorshift128PlusInt(g, c.range)
           [] c.op = "decimal" -> Xorshift128PlusDecimal(g, c.range)

New(t, seed) ==
    IF t = "Xorshift32" THEN Xorshift32New(seed)
    ELSE Xorshift128PlusNew(seed[1], seed[2])

(***************************************************************************)
(* Inputs of the engine specification.                                     *)
(***************************************************************************)
\* (638954829 is a seed whose first next() returns 2^31 - 1)
Seeds32 == {0, 1, -1, 12345, 2147483647, -2147483647 - 1, 638954829}

Zero == BigInt(FALSE, {})
One == BigInt(FALSE, {0})

\* (0,0), (0,1), (1,0), (-1,5), (2^64,0), (-2^64,3), (2^63,2^63), (7,-2)
Seeds128 ==
    { <<Zero, Zero>>, <<Zero, One>>, <<One, Zero>>,
      <<BigInt(TRUE, {0}), BigInt(FALSE, {0, 2})>>,
      <<BigInt(FALSE, {64}), Zero>>,
      <<BigInt(TRUE, {64}), BigInt(FALSE, {0, 1})>>,
      <<BigInt(FALSE, {63}), BigInt(FALSE, {63})>>,
      <<BigInt(FALSE, {0, 1, 2}), BigInt(TRUE, {1})>> }

Seeds(t) == IF t = "Xorshift32" THEN Seeds32 ELSE Seeds128

\* the two instances get the same seed, or the pair (0,0) / (0,1)
SeedPairs(t) ==
    {<<sd, sd>> : sd \in Seeds(t)}
    \cup (IF t = "Xorshift128Plus" THEN {<<(<<Zero, Zero>>), (<<Zero, One>>)>>} ELSE {})

IntRanges ==
    { IntRangeMinMax(0, 9), IntRangeMinMax(-3, 3), IntRangeMinMax(5, 5),
      IntRangeMinMax(0, 2147483647) }

DecimalRanges == { IntRangeMinMax(0, 1) }

\* 0n..9n, 0n..2n ** 64n - 1n and -5n..10n ** 20n
BigIntRanges ==
    { BigIntRangeMinMax(BigInt(FALSE, {}), BigInt(FALSE, {0, 3})),
      BigIntRangeMinMax(BigInt(FALSE, {}), BigInt(FALSE, 0..63)),
      BigIntRangeMinMax(BigInt(TRUE, {0, 2}),
                        BigInt(FALSE, {20, 24, 25, 29, 30, 32, 34, 35, 37, 41, 42, 43, 44,
                                       46, 48, 49, 50, 54, 55, 56, 57, 59, 61, 62, 64, 66})) }

Calls ==
    {[range |-> IntRangeMinMax(0, 0), op |-> "next"]}
    \cup {[range |-> r, op |-> "int"] : r \in IntRanges}
    \cup {[range |-> r, op |-> "decimal"] : r \in DecimalRanges}
    \cup {[range |-> r, op |-> "bigint"] : r \in BigIntRanges}

NoCall == [range |-> IntRangeMinMax(0, 0), op |-> "new"]

(***************************************************************************)
(* Numbers of the vector type.  A component is an IEEE double; the model   *)
(* holds the doubles it computes exactly: the integers, the two infinities,*)
(* NaN and Number.MAX_VALUE.  Of a finite result that it does not compute  *)
(* (an inexact quotient, root, sine or cosine, and what arithmetic makes   *)
(* of one) it holds the sign only: Out(1) is some positive and Out(-1)     *)
(* some negative number, Out(0) one whose sign is not held and that may be *)
(* zero; all three are far from the largest and the smallest magnitudes.   *)
(* An operation on them returns the double the operands determine (a sum   *)
(* with an infinity, a product with zero) and Out or Unknown where the     *)
(* value rests on what is not held.  Unknown is a number of which nothing  *)
(* is held: it may be huge, tiny, infinite or NaN.                         *)
(* The sign of zero is not kept: no modelled operation observes it.        *)
(***************************************************************************)
Fin(n) == [k |-> "fin", v |-> n]
PInf == [k |-> "inf", v |-> 1]
NInf == [k |-> "inf", v |-> -1]
NaN == [k |-> "nan", v |-> 0]
Out(s) == [k |-> "out", v |-> s]
Unknown == [k |-> "unknown", v |-> 0]
\* Number.MAX_VALUE and -Number.MAX_VALUE, the largest finite numbers: v is the sign
MaxValue == [k |-> "max", v |-> 1]
MinusMaxValue == [k |-> "max", v |-> -1]
Big(s) == IF s > 0 THEN MaxValue ELSE MinusMaxValue

Sgn(a) == IF a.v > 0 THEN 1 ELSE IF a.v < 0 THEN -1 ELSE 0
Inf(s) == IF s > 0 THEN PInf ELSE NInf
Abs(n) == IF n < 0 THEN -n ELSE n
\* the least and the greatest sign an integer or an Out may have
SgnLo(a) == IF a.k = "out" /\ a.v = 0 THEN -1 ELSE Sgn(a)
SgnHi(a) == IF a.k = "out" /\ a.v = 0 THEN 1 ELSE Sgn(a)
OutBetween(lo, hi) == Out(IF lo = hi THEN lo ELSE 0)

\* a + b
fadd(a, b) ==
    CASE a.k = "nan" \/ b.k = "nan" -> NaN
      [] a.k = "unknown" \/ b.k = "unknown" -> Unknown
      [] a.k = "inf" /\ b.k = "inf" -> IF a.v = b.v THEN a ELSE NaN
      [] a.k = "inf" -> a
      [] b.k = "inf" -> b
      [] a.k = "max" /\ b.k = "max" -> IF a.v = b.v THEN Inf(a.v) ELSE Fin(0)
      [] a.k = "max" -> a
      [] b.k = "max" -> b
      [] a.k = "fin" /\ b.k = "fin" -> Fin(a.v + b.v)
      [] a = Fin(0) -> b
      [] b = Fin(0) -> a
      [] OTHER -> IF SgnLo(a) = SgnHi(a) /\ SgnLo(b) = SgnHi(b) /\ Sgn(a) = Sgn(b)
                  THEN Out(Sgn(a))
                  ELSE Out(0)

\* a * b
fmul(a, b) ==
    CASE a.k = "nan" \/ b.k = "nan" -> NaN
      [] a.k = "unknown" \/ b.k = "unknown" -> Unknown
      [] a = Out(0) /\ b.k = "inf" -> Unknown
      [] a.k = "inf" /\ b = Out(0) -> Unknown
      [] a.k = "inf" \/ b.k = "inf" ->
            IF Sgn(a) * Sgn(b) = 0 THEN NaN ELSE Inf(Sgn(a) * Sgn(b))
      [] a.k = "max" /\ b.k = "max" -> Inf(a.v * b.v)
      [] a.k = "out" /\ b.k = "max" -> Unknown
      [] a.k = "max" /\ b.k = "out" -> Unknown
      [] a.k = "max" \/ b.k = "max" ->
            IF Sgn(a) * Sgn(b) = 0 THEN Fin(0)
            ELSE IF Abs(a.v * b.v) = 1 THEN Big(a.v * b.v)
            ELSE Inf(Sgn(a) * Sgn(b))
      [] a.k = "fin" /\ b.k = "fin" -> Fin(a.v * b.v)
      [] a = Fin(0) \/ b = Fin(0) -> Fin(0)
      [] OTHER -> Out(Sgn(a) * Sgn(b))

\* -a
fneg(a) == fmul(a, Fin(-1))

\* a - b
fsub(a, b) == fadd(a, fneg(b))

\* a / b
fdiv(a, b) ==
    CASE a.k = "nan" \/ b.k = "nan" -> NaN
      [] a.k = "unknown" \/ b.k = "unknown" -> Unknown
      [] a.k = "inf" /\ b.k = "inf" -> NaN
      [] a.k = "inf" -> IF b = Out(0) THEN Unknown
                        ELSE Inf(IF Sgn(b) < 0 THEN -Sgn(a) ELSE Sgn(a))
      [] b.k = "inf" -> Fin(0)
      [] a.k = "max" /\ b.k = "max" -> Fin(a.v * b.v)
      [] b.k = "max" -> IF a = Fin(0) THEN Fin(0) ELSE Unknown
      [] b = Fin(0) -> IF a = Fin(0) THEN NaN ELSE IF a = Out(0) THEN Unknown ELSE Inf(Sgn(a))
      [] a.k = "max" -> IF b.k = "fin" /\ Abs(b.v) = 1 THEN Big(a.v * b.v) ELSE Unknown
      [] b = Out(0) -> Unknown
      [] a = Fin(0) -> Fin(0)
      [] a.k = "fin" /\ b.k = "fin" /\ a.v % Abs(b.v) = 0 ->
            Fin(Sgn(b) * (a.v \div Abs(b.v)))
      [] OTHER -> Out(Sgn(a) * Sgn(b))

\* Math.sqrt(a)
fsqrt(a) ==
    CASE a.k = "nan" -> NaN
      [] a.k = "unknown" \/ a = Out(0) -> Unknown
      [] a.k = "inf" -> IF a.v > 0 THEN PInf ELSE NaN
      [] a.v < 0 -> NaN
      [] a.k = "max" -> Unknown
      [] a.k = "out" -> Out(1)
      [] \E r \in 0..a.v : r * r = a.v -> Fin(CHOOSE r \in 0..a.v : r * r = a.v)
      [] OTHER -> Out(1)

\* a < b on non-NaN numbers that the model holds
flt(a, b) ==
    CASE a.k = "inf" /\ b.k = "inf" -> a.v < b.v
      [] a.k = "inf" -> a.v < 0
      [] b.k = "inf" -> b.v > 0
      [] a.k = "max" /\ b.k = "max" -> a.v < b.v
      [] a.k = "max" -> a.v < 0
      [] b.k = "max" -> b.v > 0
      [] OTHER -> a.v < b.v

\* Math.min(a, b), Math.max(a, b): with an Out against an integer or an Out, the
\* signs decide where they differ
fmin(a, b) ==
    CASE a.k = "nan" \/ b.k = "nan" -> NaN
      [] a.k = "unknown" \/ b.k = "unknown" -> Unknown
      [] a.k \in {"inf", "max"} \/ b.k \in {"inf", "max"} \/ (a.k = "fin" /\ b.k = "fin") ->
            IF flt(b, a) THEN b ELSE a
      [] SgnHi(a) < SgnLo(b) -> a
      [] SgnHi(b) < SgnLo(a) -> b
      [] OTHER -> OutBetween(IF SgnLo(a) < SgnLo(b) THEN SgnLo(a) ELSE SgnLo(b),
                             IF SgnHi(a) < SgnHi(b) THEN SgnHi(a) ELSE SgnHi(b))

fmax(a, b) ==
    CASE a.k = "nan" \/ b.k = "nan" -> NaN
      [] a.k = "unknown" \/ b.k = "unknown" -> Unknown
      [] a.k \in {"inf", "max"} \/ b.k \in {"inf", "max"} \/ (a.k = "fin" /\ b.k = "fin") ->
            IF flt(a, b) THEN b ELSE a
      [] SgnHi(a) < SgnLo(b) -> b
      [] SgnHi(b) < SgnLo(a) -> a
      [] OTHER -> OutBetween(IF SgnLo(a) > SgnLo(b) THEN SgnLo(a) ELSE SgnLo(b),
                             IF SgnHi(a) > SgnHi(b) THEN SgnHi(a) ELSE SgnHi(b))

\* Math.sin and Math.cos of angle * Math.PI / 180 for an angle in degrees.  The
\* product of Number.MAX_VALUE and Math.PI overflows to an infinity.  Of an integer
\* angle the results 0, 1 and -1 are exact where the curve is flat; where it crosses
\* zero away from 0 degrees the result is a rounding residue, and elsewhere it has
\* the sign of its quadrant.
fsin(angle) ==
    CASE angle.k \in {"nan", "inf", "max"} -> NaN
      [] angle.k = "unknown" -> Unknown
      [] angle.k = "out" -> Out(0)
      [] angle.v = 0 -> Fin(0)
      [] angle.v % 360 = 90 -> Fin(1)
      [] angle.v % 360 = 270 -> Fin(-1)
      [] angle.v % 180 = 0 -> Out(0)
      [] OTHER -> Out(IF angle.v % 360 < 180 THEN 1 ELSE -1)

fcos(angle) ==
    CASE angle.k \in {"nan", "inf", "max"} -> NaN
      [] angle.k = "unknown" -> Unknown
      [] angle.k = "out" -> Out(0)
      [] angle.v % 360 = 0 -> Fin(1)
      [] angle.v % 360 = 180 -> Fin(-1)
      [] angle.v % 180 = 90 -> Out(0)
      [] OTHER -> Out(IF angle.v % 360 < 90 \/ angle.v % 360 > 270 THEN 1 ELSE -1)

(***************************************************************************)
(* Vector3Builder.  A call yields the receiver's components after it and   *)
(* whether it threw; a call that throws leaves the receiver as it was.     *)
(***************************************************************************)
Vec(x, y, z) == [x |-> x, y |-> y, z |-> z]
Return(v) == [vec |-> v, thrown |-> FALSE]
Throw(v) == [vec |-> v, thrown |-> TRUE]

\* sentry.number.nonNaN().test(value)
nonNaN(value) == value.k # "nan"

isVector3(value) == nonNaN(value.x) /\ nonNaN(value.y) /\ nonNaN(value.z)

\* new Vector3Builder(x, y, z)
Vector3BuilderNew(x, y, z) ==
    IF ~(nonNaN(x) /\ nonNaN(y) /\ nonNaN(z))
    THEN [thrown |-> TRUE]
    ELSE [vec |-> Vec(x, y, z), thrown |-> FALSE]

Vector3BuilderSetX(v, value) == IF ~nonNaN(value) THEN Throw(v) ELSE Return([v EXCEPT !.x = value])
Vector3BuilderSetY(v, value) == IF ~nonNaN(value) THEN Throw(v) ELSE Return([v EXCEPT !.y = value])
Vector3BuilderSetZ(v, value) == IF ~nonNaN(value) THEN Throw(v) ELSE Return([v EXCEPT !.z = value])

\* operate(other, (a, b) => a * b): the components are overwritten with what the
\* callback returns, whatever it returns
Vector3BuilderOperateTimes(v, other) ==
    IF isVector3(other)
    THEN [vec |-> Vec(fmul(v.x, other.x), fmul(v.y, other.y), fmul(v.z, other.z)),
          thrown |-> FALSE, other |-> other]
    ELSE [vec |-> v, thrown |-> TRUE, other |-> other]

\* add(other): operate(other, (a, b) => a + b).  The fields of other are read;
\* the result holds other as it is after the call.
Vector3BuilderAdd(v, other) ==
    IF ~isVector3(other) THEN [vec |-> v, thrown |-> TRUE, other |-> other]
    ELSE [vec |-> Vec(fadd(v.x, other.x), fadd(v.y, other.y), fadd(v.z, other.z)),
          thrown |-> FALSE, other |-> other]

\* scale(scalar): operate(component => component * scalar)
Vector3BuilderScale(v, scalar) ==
    IF ~nonNaN(scalar) THEN Throw(v)
    ELSE Return(Vec(fmul(v.x, scalar), fmul(v.y, scalar), fmul(v.z, scalar)))

Vector3BuilderInvert(v) == Vector3BuilderScale(v, Fin(-1))

\* clone(): a new Vector3Builder with the same components
Vector3BuilderClone(v) == Vector3BuilderNew(v.x, v.y, v.z).vec

\* Vector3Builder.from(vector3): a new Vector3Builder with the components of vector3
Vector3BuilderFrom(vector3) == Vector3BuilderNew(vector3.x, vector3.y, vector3.z).vec

\* a faulty variant: invert() is called on other itself
Vector3BuilderSubtractNoClone(v, other) ==
    IF ~isVector3(other) THEN [vec |-> v, thrown |-> TRUE, other |-> other]
    ELSE LET inverted == Vector3BuilderInvert(other).vec
             r == Vector3BuilderAdd(v, inverted)
         IN [vec |-> r.vec, thrown |-> r.thrown, other |-> inverted]

\* subtract(other): add(Vector3Builder.from(other).clone().invert()); invert()
\* writes to the clone, other is only read
Vector3BuilderSubtract(v, other) ==
    IF ~isVector3(other) THEN [vec |-> v, thrown |-> TRUE, other |-> other]
    ELSE LET inverted == Vector3BuilderInvert(Vector3BuilderClone(Vector3BuilderFrom(other))).vec
             r == Vector3BuilderAdd(v, inverted)
         IN [vec |-> r.vec, thrown |-> r.thrown, other |-> other]

Vector3BuilderDivide(v, scalar) ==
    IF ~nonNaN(scalar) THEN Throw(v)
    ELSE IF scalar = Fin(0) THEN Throw(v)
    ELSE Return(Vec(fdiv(v.x, scalar), fdiv(v.y, scalar), fdiv(v.z, scalar)))

\* Vector3BuilderDot(other): [value, thrown]
Vector3BuilderDot(v, other) ==
    IF ~isVector3(other) THEN [thrown |-> TRUE]
    ELSE [thrown |-> FALSE,
          value |-> fadd(fadd(fmul(v.x, other.x), fmul(v.y, other.y)), fmul(v.z, other.z))]

\* a faulty variant: the z component adds the two products
Vector3BuilderCrossPlus(v, other) ==
    IF ~isVector3(other) THEN [vec |-> v, thrown |-> TRUE, other |-> other]
    ELSE LET n == Vector3BuilderNew(fsub(fmul(v.y, other.z), fmul(v.z, other.y)),
                                    fsub(fmul(v.z, other.x), fmul(v.x, other.z)),
                                    fadd(fmul(v.x, other.y), fmul(v.y, other.x)))
         IN IF n.thrown THEN [vec |-> v, thrown |-> TRUE, other |-> other]
            ELSE [vec |-> v, thrown |-> FALSE, value |-> n.vec, other |-> other]

\* cross(other): this after the call, other after the call, and the new vector
\* returned unless the call threw
Vector3BuilderCross(v, other) ==
    IF ~isVector3(other) THEN [vec |-> v, thrown |-> TRUE, other |-> other]
    ELSE LET x1 == v.x
             y1 == v.y
             z1 == v.z
             x2 == other.x
             y2 == other.y
             z2 == other.z
             n == Vector3BuilderNew(fsub(fmul(y1, z2), fmul(z1, y2)),
                                    fsub(fmul(z1, x2), fmul(x1, z2)),
                                    fsub(fmul(x1, y2), fmul(y1, x2)))
         IN IF n.thrown THEN [vec |-> v, thrown |-> TRUE, other |-> other]
            ELSE [vec |-> v, thrown |-> FALSE, value |-> n.vec, other |-> other]

\* length(): Math.sqrt(this.dot(this))
Vector3BuilderLength(v) ==
    LET d == Vector3BuilderDot(v, v)
    IN IF d.thrown THEN d ELSE [thrown |-> FALSE, value |-> fsqrt(d.value)]

\* a faulty variant: a previous length of 0 is not set apart
Vector3BuilderSetLengthNoZeroCheck(v, length) ==
    IF nonNaN(length)
    THEN LET previous == Vector3BuilderLength(v)
         IN IF previous.thrown THEN Throw(v)
            ELSE Return(Vec(fmul(fdiv(v.x, previous.value), length),
                            fmul(fdiv(v.y, previous.value), length),
                            fmul(fdiv(v.z, previous.value), length)))
    ELSE Throw(v)

\* length(length)
Vector3BuilderSetLength(v, length) ==
    IF nonNaN(length)
    THEN LET previous == Vector3BuilderLength(v)
         IN IF previous.thrown THEN Throw(v)
            ELSE IF previous.value = Fin(0) THEN Return(v)
            ELSE Return(Vec(fmul(fdiv(v.x, previous.value), length),
                            fmul(fdiv(v.y, previous.value), length),
                            fmul(fdiv(v.z, previous.value), length)))
    ELSE Throw(v)

Vector3BuilderNormalize(v) == Vector3BuilderSetLength(v, Fin(1))

Vector3BuilderClamp(v, min, max) ==
    IF ~(isVector3(min) /\ isVector3(max)) THEN Throw(v)
    ELSE Return(Vec(fmax(min.x, fmin(v.x, max.x)),
                    fmax(min.y, fmin(v.y, max.y)),
                    fmax(min.z, fmin(v.z, max.z))))

Vector3BuilderRotate(v, axis, angle) ==
    IF ~isVector3(axis) THEN Throw(v)
    ELSE LET sin == fsin(angle)
             cos == fcos(angle)
             x == axis.x
             y == axis.y
             z == axis.z
             k == fsub(Fin(1), cos)
             m00 == fadd(cos, fmul(fmul(x, x), k))
             m01 == fsub(fmul(fmul(x, y), k), fmul(z, sin))
             m02 == fadd(fmul(fmul(x, z), k), fmul(y, sin))
             m10 == fadd(fmul(fmul(y, x), k), fmul(z, sin))
             m11 == fadd(cos, fmul(fmul(y, y), k))
             m12 == fsub(fmul(fmul(y, z), k), fmul(x, sin))
             m20 == fsub(fmul(fmul(z, x), k), fmul(y, sin))
             m21 == fadd(fmul(fmul(z, y), k), fmul(x, sin))
             m22 == fadd(cos, fmul(fmul(z, z), k))
             a == fadd(fadd(fmul(m00, v.x), fmul(m01, v.y)), fmul(m02, v.z))
             b == fadd(fadd(fmul(m10, v.x), fmul(m11, v.y)), fmul(m12, v.z))
             c == fadd(fadd(fmul(m20, v.x), fmul(m21, v.y)), fmul(m22, v.z))
         IN Return(Vec(a, b, c))

(***************************************************************************)
(* PerlinNoise: the constructor.                                           *)
(***************************************************************************)
TableSize == 256
OffsetDrawMax == 2147483647

\* generator.int(range)
GeneratorInt(g, range) == Draw(g, [range |-> range, op |-> "int"], 0)

\* the three draws of the offset, for x, y and z in this order; each component is
\* draw / (2 ** 31 - 1) * 256
PerlinNoiseOffset(g) ==
    LET r == IntRangeMinMax(0, OffsetDrawMax)
        dx == GeneratorInt(g, r)
        dy == GeneratorInt(dx.gen, r)
        dz == GeneratorInt(dy.gen, r)
    IN [offset |-> <<dx.value, dy.value, dz.value>>, gen |-> dz.gen]

\* Array(256).fill(0).map(() => generator.int(IntRange.minMax(0, 255))), entries lo..hi
RECURSIVE PerlinNoiseFill(_, _, _)
PerlinNoiseFill(g, lo, hi) ==
    IF lo = hi
    THEN LET d == GeneratorInt(g, IntRangeMinMax(0, TableSize - 1))
         IN [permutation |-> <<d.value>>, gen |-> d.gen]
    ELSE LET mid == (lo + hi) \div 2
             l == PerlinNoiseFill(g, lo, mid)
         IN IF Len(l.permutation) = 0 THEN l
            ELSE LET h == PerlinNoiseFill(l.gen, mid + 1, hi)
                 IN [permutation |-> l.permutation \o h.permutation, gen |-> h.gen]

\* a faulty variant: the swap partner is drawn from the whole table
ShuffleStepAnyIndex(st, i) ==
    LET d == GeneratorInt(st.gen, IntRangeMinMax(0, TableSize - 1))
        index == d.value
        old == st.permutation[i + 1]
        p1 == [st.permutation EXCEPT ![i + 1] = st.permutation[index + 1]]
        p2 == [p1 EXCEPT ![index + 1] = old]
    IN [permutation |-> Append(p2, p2[i + 1]), gen |-> d.gen]

\* a faulty variant: entry i + 256 is not written
ShuffleStepNoMirror(st, i) ==
    LET d == GeneratorInt(st.gen, IntRangeMinMax(i, TableSize - 1))
        index == d.value
        old == st.permutation[i + 1]
        p1 == [st.permutation EXCEPT ![i + 1] = st.permutation[index + 1]]
        p2 == [p1 EXCEPT ![index + 1] = old]
    IN [permutation |-> p2, gen |-> d.gen]

\* the body of the shuffle loop for one i; the write to entry i + 256 extends the array
ShuffleStep(st, i) ==
    LET d == GeneratorInt(st.gen, IntRangeMinMax(i, TableSize - 1))
        index == d.value
        old == st.permutation[i + 1]
        p1 == [st.permutation EXCEPT ![i + 1] = st.permutation[index + 1]]
        p2 == [p1 EXCEPT ![index + 1] = old]
    IN [permutation |-> Append(p2, p2[i + 1]), gen |-> d.gen]

\* the shuffle loop for i = lo..hi
RECURSIVE PerlinNoiseShuffle(_, _, _)
PerlinNoiseShuffle(st, lo, hi) ==
    IF lo = hi THEN ShuffleStep(st, lo)
    ELSE LET mid == (lo + hi) \div 2
             l == PerlinNoiseShuffle(st, lo, mid)
         IN IF Len(l.permutation) = 0 THEN l ELSE PerlinNoiseShuffle(l, mid + 1, hi)

\* a faulty variant: the table is filled before the offset is drawn
PerlinNoiseNewFillFirst(g) ==
    LET f == PerlinNoiseFill(g, 0, TableSize - 1)
        o == PerlinNoiseOffset(f.gen)
        s == PerlinNoiseShuffle([permutation |-> f.permutation, gen |-> o.gen],
                                0, TableSize - 1)
    IN [permutation |-> s.permutation, offset |-> o.offset, gen |-> s.gen]

\* new PerlinNoise(generator)
PerlinNoiseNew(g) ==
    LET o == PerlinNoiseOffset(g)
        f == PerlinNoiseFill(o.gen, 0, TableSize - 1)
        s == PerlinNoiseShuffle(f, 0, TableSize - 1)
    IN [permutation |-> s.permutation, offset |-> o.offset, gen |-> s.gen]

(***************************************************************************)
(* The doubles of PerlinNoise.noise3.  A finite double is held exactly, as  *)
(* its sign, the bits of an odd integer mag and a scale: its value is       *)
(* mag * 2 ** -scale (zero has no bits and scale 0; the sign of a zero is   *)
(* not held, no result of noise3 depends on it).  The two infinities and    *)
(* NaN are values of their own.  Every arithmetic step is the exact result  *)
(* rounded to the nearest double, ties to even, as IEEE 754 has it: to 53   *)
(* significant bits, to a multiple of 2 ** -1074 (Number.MIN_VALUE) where   *)
(* that is coarser, and to Infinity from 2 ** 1024 on.                      *)
(***************************************************************************)
SignificandBits == 53
NoiseScale == 75
MinExponent == -1074
MaxExponent == 1024

\* the element of a one-element set (an intermediate result is computed once and
\* then used through its name)
The(S) == CHOOSE r \in S : TRUE

DoubleNaN == [k |-> "nan", neg |-> FALSE, mag |-> {}, scale |-> 0]
DoubleInfinity(neg) == [k |-> "inf", neg |-> neg, mag |-> {}, scale |-> 0]
DoubleZero == [k |-> "num", neg |-> FALSE, mag |-> {}, scale |-> 0]

\* the smallest bit position of a non-empty word
LowBit(a) == CHOOSE i \in a : \A j \in a : j >= i

\* the finite double of value mag * 2 ** -scale in its one form: mag odd, or zero
Double(neg, mag, scale) ==
    IF mag = {} THEN DoubleZero
    ELSE The({[k |-> "num", neg |-> neg, mag |-> Shr(mag, low), scale |-> scale - low] :
                 low \in {LowBit(mag)}})

\* a + 2 ** cut for a word a with no bit below cut
Increment(a, cut) ==
    IF cut \notin a THEN a \cup {cut}
    ELSE The({(a \ (cut..(k - 1))) \cup {k} :
                 k \in {CHOOSE i \in (cut + 1)..(TopBit(a) + 1) :
                           i \notin a /\ (cut..(i - 1)) \subseteq a}})

\* the double nearest to the real mag * 2 ** -scale with bits below position cut
\* dropped, ties to even
RoundAt(neg, mag, scale, cut) ==
    IF cut <= 0 THEN Double(neg, mag, scale)
    ELSE The({IF r # {} /\ TopBit(r) - scale >= MaxExponent
              THEN DoubleInfinity(neg)
              ELSE Double(neg, r, scale) :
                 r \in {IF (cut - 1) \in mag /\ (cut \in mag \/ \E i \in mag : i < cut - 1)
                        THEN Increment({i \in mag : i >= cut}, cut)
                        ELSE {i \in mag : i >= cut}}})

\* the double nearest to the real mag * 2 ** -scale, ties to even
RoundDouble(neg, mag, scale) ==
    IF mag = {} THEN DoubleZero
    ELSE The({IF top - scale >= MaxExponent THEN DoubleInfinity(neg)
              ELSE IF top - (SignificandBits - 1) > scale + MinExponent
              THEN RoundAt(neg, mag, scale, top - (SignificandBits - 1))
              ELSE RoundAt(neg, mag, scale, scale + MinExponent) :
                 top \in {TopBit(mag)}})

\* a * b on bit sets, exact: the sum of a << i over the bits i of b
RECURSIVE Times(_, _)
Times(a, b) ==
    IF a = {} \/ b = {} THEN {}
    ELSE IF Cardinality(b) = 1 THEN Shl(a, TopBit(b))
    ELSE LET mid == (LowBit(b) + TopBit(b)) \div 2
             l == Times(a, {i \in b : i <= mid})
         IN IF l = {} THEN l ELSE Add(l, Times(a, {i \in b : i > mid}))

\* a * b on doubles
DoubleTimes(a, b) ==
    IF a.k = "nan" \/ b.k = "nan" THEN DoubleNaN
    ELSE IF a.k = "inf" \/ b.k = "inf"
    THEN IF a = DoubleZero \/ b = DoubleZero THEN DoubleNaN
         ELSE DoubleInfinity(a.neg # b.neg)
    ELSE The({RoundDouble(a.neg # b.neg, product, a.scale + b.scale) :
                 product \in {IF Cardinality(a.mag) < Cardinality(b.mag)
                              THEN Times(b.mag, a.mag) ELSE Times(a.mag, b.mag)}})

\* a + b on finite doubles, both taken in units of 2 ** -scale
DoubleSum(a, b, scale) ==
    The({RoundDouble(sum.neg, sum.mag, scale) :
            sum \in {BigIntAdd(BigInt(a.neg, Shl(a.mag, scale - a.scale)),
                               BigInt(b.neg, Shl(b.mag, scale - b.scale)))}})

\* a + b on doubles
DoublePlus(a, b) ==
    IF a.k = "nan" \/ b.k = "nan" THEN DoubleNaN
    ELSE IF a.k = "inf"
    THEN IF b.k = "inf" /\ a.neg # b.neg THEN DoubleNaN ELSE a
    ELSE IF b.k = "inf" THEN b
    ELSE DoubleSum(a, b, IF a.scale > b.scale THEN a.scale ELSE b.scale)

\* a - b on doubles
DoubleMinus(a, b) == DoublePlus(a, [b EXCEPT !.neg = b.k # "nan" /\ ~b.neg])

\* the double nearest to a non-negative real, ties to even: a is the integer part
\* of the real (in units of the scale) and more says whether a non-zero part
\* below one unit was cut off
RoundNearestEven(a, more) ==
    IF a = {} \/ TopBit(a) < SignificandBits THEN a
    ELSE LET cut == TopBit(a) - (SignificandBits - 1)
             kept == {i \in a : i >= cut}
         IN IF /\ (cut - 1) \in a
               /\ (more \/ cut \in a \/ \E i \in a : i < cut - 1)
            THEN Add(kept, {cut})
            ELSE kept

\* (draw / (2 ** 31 - 1)) * 256 in units of 2 ** -75.  draw / (2 ** 31 - 1) is the
\* sum of draw * 2 ** (-31 * k) over k >= 1, so its binary digits are the 31 bits
\* of the draw, repeated: the first 84 of them are rounded to a double (in units
\* of 2 ** -84), and the multiplication by 256 is exact
OffsetValue(draw) ==
    The({Shr(RoundNearestEven(Shl(d, 53) \cup Shl(d, 22) \cup Shr(d, 9), draw # 0), 1) :
            d \in {ToInt32(draw)}})

\* this.offset.x, the double made of a draw by the constructor
OffsetDouble(draw) == The({Double(FALSE, off, NoiseScale) : off \in {OffsetValue(draw)}})

\* Math.floor of a double
MathFloor(s) ==
    IF s.k # "num" \/ s.scale <= 0 THEN s
    ELSE IF s.neg
    THEN Double(TRUE, Increment(Shr(s.mag, s.scale), 0), 0)
    ELSE Double(FALSE, Shr(s.mag, s.scale), 0)

\* the low eight bits of the two's complement of the integer of magnitude m
LowEight(neg, m) == Mod((IF neg THEN (0..7) \ Dec(m) ELSE m) \cap (0..7), 255)

\* floorX & 255: ToInt32 of NaN and of the infinities is 0, and the low eight
\* bits of ToInt32 of an integer are those of its two's complement
And255(floor) ==
    IF floor.k # "num" \/ floor.mag = {} THEN 0
    ELSE LowEight(floor.neg, Shl(floor.mag, -floor.scale))

\* one axis of noise3 from v.x += this.offset.x on: X = floorX & 255 and v.x after
\* v.x -= floorX
NoiseAxisFloored(s, floor) == [index |-> And255(floor), fraction |-> DoubleMinus(s, floor)]

NoiseAxisOf(s) == The({NoiseAxisFloored(s, floor) : floor \in {MathFloor(s)}})

\* v.x *= options.frequency
NoiseScaled(c, frequency) == DoubleTimes(c, frequency)

\* v.x += this.offset.x
NoiseCoordinate(c, frequency, draw) ==
    The({DoublePlus(product, off) :
            product \in {NoiseScaled(c, frequency)}, off \in {OffsetDouble(draw)}})

\* one axis of noise3: v.x *= options.frequency; v.x += this.offset.x;
\* floorX = Math.floor(v.x); X = floorX & 255; v.x -= floorX
NoiseAxis(c, frequency, draw) ==
    The({NoiseAxisOf(s) : s \in {NoiseCoordinate(c, frequency, draw)}})

(***************************************************************************)
(* PerlinNoise.noise3.  The value noise3 returns is a polynomial in the    *)
(* fractional parts; it is held as what determines it: the amplitude, the  *)
(* fractional parts and the gradient hashes of the eight cell corners, in  *)
(* the order of the code.                                                  *)
(***************************************************************************)
\* hash &= 15 in gradient (undefined & 15 is 0)
GradientHash(hash) == IF hash < 0 THEN 0 ELSE hash % 16

\* a faulty variant: the query accumulates into this.offset instead of into v
PerlinNoiseNoise3IntoOffsetAxis(n, v, options, x) ==
    LET moved == [n.offset EXCEPT ![1] = IF n.offset[1] >= OffsetDrawMax - 8388608
                                         THEN n.offset[1] - (OffsetDrawMax - 8388608)
                                         ELSE n.offset[1] + 8388608]
    IN [lookups |-> <<x.index>>,
        value |-> [fraction |-> <<x.fraction>>,
                   amplitude |-> options.amplitude,
                   hashes |-> <<GradientHash(n.permutation[x.index + 1])>>],
        v |-> v,
        noise |-> [permutation |-> n.permutation, offset |-> moved]]

PerlinNoiseNoise3IntoOffset(n, v, options) ==
    The({PerlinNoiseNoise3IntoOffsetAxis(n, v, options, x) :
            x \in {NoiseAxis(v[1], options.frequency, n.offset[1])}})

\* this.permutation[index]: an index outside the array reads undefined, held as -1
PermutationAt(table, index) ==
    IF index \in 0..(Len(table) - 1) THEN table[index + 1] ELSE -1

\* read + n for what a lookup returned: undefined + n is NaN, held as -1 as well
\* (and NaN + 1 is NaN, this.permutation[NaN] is undefined)
LookupPlus(read, n) == IF read < 0 THEN -1 ELSE read + n

\* noise3 from the lookups on: x, y and z are the three axes after the floors are
\* taken
PerlinNoiseNoise3Cell(n, options, x, y, z) ==
    LET X == x.index
        Y == y.index
        Z == z.index
        fraction == <<x.fraction, y.fraction, z.fraction>>
        A == LookupPlus(PermutationAt(n.permutation, X), Y)
        AA == LookupPlus(PermutationAt(n.permutation, A), Z)
        AB == LookupPlus(PermutationAt(n.permutation, LookupPlus(A, 1)), Z)
        B == LookupPlus(PermutationAt(n.permutation, X + 1), Y)
        BA == LookupPlus(PermutationAt(n.permutation, B), Z)
        BB == LookupPlus(PermutationAt(n.permutation, LookupPlus(B, 1)), Z)
    IN [lookups |-> <<X, A, LookupPlus(A, 1), X + 1, B, LookupPlus(B, 1),
                      AA, BA, AB, BB,
                      LookupPlus(AA, 1), LookupPlus(BA, 1),
                      LookupPlus(AB, 1), LookupPlus(BB, 1)>>,
        value |-> [fraction |-> fraction,
                   amplitude |-> options.amplitude,
                   hashes |-> <<GradientHash(PermutationAt(n.permutation, AA)),
                                GradientHash(PermutationAt(n.permutation, BA)),
                                GradientHash(PermutationAt(n.permutation, AB)),
                                GradientHash(PermutationAt(n.permutation, BB)),
                                GradientHash(PermutationAt(n.permutation, LookupPlus(AA, 1))),
                                GradientHash(PermutationAt(n.permutation, LookupPlus(BA, 1))),
                                GradientHash(PermutationAt(n.permutation, LookupPlus(AB, 1))),
                                GradientHash(PermutationAt(n.permutation, LookupPlus(BB, 1)))>>],
        v |-> fraction,
        noise |-> [permutation |-> n.permutation, offset |-> n.offset]]

\* noise3(v, options) on the noise n = [permutation, offset]: the value returned,
\* the point object v after the call, the fields of the noise after the call and
\* the indices this.permutation was read at, in the order of the reads
PerlinNoiseNoise3(n, v, options) ==
    The({PerlinNoiseNoise3Cell(n, options, x, y, z) :
            x \in {NoiseAxis(v[1], options.frequency, n.offset[1])},
            y \in {NoiseAxis(v[2], options.frequency, n.offset[2])},
            z \in {NoiseAxis(v[3], options.frequency, n.offset[3])}})

(***************************************************************************)
(* Range, FiniteRange and IntRange.  Their numbers are those of Vector3-   *)
(* Builder and five more: n + 0.5 for an integer n, Number.MAX_SAFE_INTEGER,*)
(* 2 ** 53 (an integer that is not safe), Number.MIN_VALUE (the smallest   *)
(* positive number, 5e-324) and undefined.                                 *)
(***************************************************************************)
Half(n) == [k |-> "half", v |-> n]
MaxSafeInteger == [k |-> "maxsafe", v |-> 1]
AboveSafe == [k |-> "unsafe", v |-> 1]
Undefined == [k |-> "undefined", v |-> 0]
MinValue == [k |-> "min", v |-> 1]

\* where a number other than NaN lies: below, among or above the small numbers
Tier(a) ==
    CASE a.k = "inf" -> 4 * a.v
      [] a.k = "max" -> 3 * a.v
      [] a.k = "unsafe" -> 2
      [] a.k = "maxsafe" -> 1
      [] OTHER -> 0

\* twice a small number
Twice(a) == IF a.k = "half" THEN 2 * a.v + 1 ELSE 2 * a.v

\* the place of a small number in their order: Number.MIN_VALUE lies between 0 and 0.5
Place(a) == IF a.k = "min" THEN 1 ELSE 2 * Twice(a)

\* a < b
NumLt(a, b) ==
    /\ a.k # "nan"
    /\ b.k # "nan"
    /\ \/ Tier(a) < Tier(b)
       \/ Tier(a) = 0 /\ Tier(b) = 0 /\ Place(a) < Place(b)

\* a <= b
NumLe(a, b) == a.k # "nan" /\ b.k # "nan" /\ ~NumLt(b, a)

MathMin(a, b) == IF a.k = "nan" \/ b.k = "nan" THEN NaN ELSE IF NumLt(b, a) THEN b ELSE a
MathMax(a, b) == IF a.k = "nan" \/ b.k = "nan" THEN NaN ELSE IF NumLt(a, b) THEN b ELSE a

\* Math.round: halves go up
MathRound(a) == IF a.k = "half" THEN Fin(a.v + 1) ELSE IF a.k = "min" THEN Fin(0) ELSE a

NumberIsFinite(a) == a.k \notin {"nan", "inf"}
NumberIsSafeInteger(a) == a.k \in {"fin", "maxsafe"}

\* new Range(value1, value2)
RangeNew(value1, value2) ==
    [thrown |-> FALSE, min |-> MathMin(value1, value2), max |-> MathMax(value1, value2)]

RangeGetMin(r) == IF NumberIsFinite(r.min) THEN r.min ELSE Undefined
RangeGetMax(r) == IF NumberIsFinite(r.max) THEN r.max ELSE Undefined

\* Range.within: this.min <= value && value <= this.max
Within(r, value) == NumLe(r.min, value) /\ NumLe(value, r.max)

\* Range.clamp
RangeClamp(r, value) == MathMax(r.min, MathMin(r.max, value))

\* Range.minMax
RangeMinMax(min, max) ==
    IF NumLt(max, min) THEN [thrown |-> TRUE] ELSE RangeNew(min, max)

\* new FiniteRange(range)
FiniteRangeNew(r) ==
    LET min == RangeGetMin(r)
        max == RangeGetMax(r)
    IN IF min = Undefined \/ max = Undefined THEN [thrown |-> TRUE]
       ELSE RangeNew(min, max)

\* FiniteRange.minMax
FiniteRangeMinMax(min, max) ==
    LET r == RangeMinMax(min, max)
    IN IF r.thrown THEN r ELSE FiniteRangeNew(r)

\* FiniteRange.maxOnly
FiniteRangeMaxOnly(max) == FiniteRangeNew(RangeNew(MinValue, max))

\* new IntRange(range)
IntRangeNew(r) ==
    IF ~(NumberIsSafeInteger(RangeGetMin(r)) /\ NumberIsSafeInteger(RangeGetMax(r)))
    THEN [thrown |-> TRUE]
    ELSE FiniteRangeNew(r)

\* IntRange.minMax on numbers of any kind
IntRangeMinMaxOf(min, max) ==
    LET r == FiniteRangeMinMax(min, max)
    IN IF r.thrown THEN r ELSE IntRangeNew(r)

\* IntRange.within: [thrown, value]
IntRangeWithin(r, value) ==
    IF ~NumberIsSafeInteger(value) THEN [thrown |-> TRUE]
    ELSE [thrown |-> FALSE, value |-> Within(r, value)]

\* IntRange.clamp
IntRangeClamp(r, value) ==
    IF NumLt(r.max, value) THEN r.max
    ELSE IF NumLt(value, r.min) THEN r.min
    ELSE MathRound(value)

(***************************************************************************)
(* Class Random.  A list is a sequence, a Set the sequence of its elements *)
(* in insertion order, a weight map the sequence of its [key, weight]      *)
(* entries in the order of Object.values and Object.entries.  Each call    *)
(* returns a record: the engine after it, the draws it asked the engine    *)
(* for, whether it threw, the value it returned and its argument object    *)
(* after the call.                                                         *)
(***************************************************************************)
Elements(seq) == {seq[i] : i \in 1..Len(seq)}

\* the engine and the noise field of a Random whose noise is n
RandomWithNoise(n) ==
    [permutation |-> n.permutation, offset |-> n.offset, gen |-> n.gen, noise |-> TRUE]

\* new Random(randomNumberGenerator): the engine afterwards and the noise field.
\* The copy under scripts constructs a PerlinNoise from the engine, the older copy
\* does not.
RandomNew(v, g) ==
    IF v = "scripts" THEN RandomWithNoise(PerlinNoiseNew(g))
    ELSE [gen |-> g, noise |-> FALSE]

\* the body of the loop of shuffledClone for index i, d being what
\* generator.int(IntRange.minMax(0, i)) returned
RandomShuffledCloneStep(st, i, d) ==
    LET current == st.clone[i + 1]
        random == d.value
        moved == [st.clone EXCEPT ![i + 1] = st.clone[random + 1]]
    IN [draws |-> Append(st.draws, [value |-> random, range |-> IntRangeMinMax(0, i)]),
        gen |-> d.gen,
        clone |-> [moved EXCEPT ![random + 1] = current]]

\* a faulty variant: the loop of shuffledClone stops above index 0
RECURSIVE RandomShuffledCloneLoopAboveZero(_, _)
RandomShuffledCloneLoopAboveZero(st, i) ==
    IF i < 1 THEN st
    ELSE RandomShuffledCloneLoopAboveZero(
             RandomShuffledCloneStep(st, i, GeneratorInt(st.gen, IntRangeMinMax(0, i))),
             i - 1)

\* the loop of shuffledClone from index i down to 0
RECURSIVE RandomShuffledCloneLoop(_, _)
RandomShuffledCloneLoop(st, i) ==
    IF i < 0 THEN st
    ELSE RandomShuffledCloneLoop(
             RandomShuffledCloneStep(st, i, GeneratorInt(st.gen, IntRangeMinMax(0, i))),
             i - 1)

\* what shuffledClone(list) returns once its loop has left st
RandomShuffledCloneReturn(st, list) ==
    [draws |-> st.draws, thrown |-> FALSE, gen |-> st.gen, value |-> st.clone,
     input |-> list]

\* shuffledClone(list)
RandomShuffledClone(g, list) ==
    LET clone == list
    IN IF Len(list) <= 1
       THEN [draws |-> <<>>, thrown |-> FALSE, gen |-> g, value |-> clone, input |-> list]
       ELSE RandomShuffledCloneReturn(
                RandomShuffledCloneLoop([draws |-> <<>>, gen |-> g, clone |-> clone],
                                        Len(clone) - 1),
                list)

\* ToIntegerOrInfinity of the end argument of slice, cut to -len..len: a fraction
\* is truncated toward zero, Number.MIN_VALUE to 0
SliceEnd(len, end) ==
    CASE end.k = "nan" -> 0
      [] end.k = "min" -> 0
      [] end.k = "fin" -> IF end.v < -len THEN -len ELSE IF end.v > len THEN len ELSE end.v
      [] end.k = "half" ->
            LET t == IF end.v < 0 THEN end.v + 1 ELSE end.v
            IN IF t < -len THEN -len ELSE IF t > len THEN len ELSE t
      [] OTHER -> IF NumLt(end, Fin(0)) THEN -len ELSE len

\* array.slice(0, end)
ArraySlice(array, end) ==
    LET e == SliceEnd(Len(array), end)
    IN SubSeq(array, 1, IF e < 0 THEN Len(array) + e ELSE e)

\* new Set(array): the first occurrence of each element, in order
RECURSIVE SetNew(_)
SetNew(array) ==
    IF Len(array) = 0 THEN <<>>
    ELSE LET front == SetNew(SubSeq(array, 1, Len(array) - 1))
             last == array[Len(array)]
         IN IF last \in Elements(front) THEN front ELSE Append(front, last)

\* new Set(s.slice(0, count)) on what this.shuffledClone([...set]) returned
RandomSampleReturn(s, set, count) ==
    [draws |-> s.draws, thrown |-> FALSE, gen |-> s.gen,
     value |-> SetNew(ArraySlice(s.value, count)), input |-> set]

\* sample(set, count) of the copy without the test of count
RandomSamplePart003(g, set, count) ==
    RandomSampleReturn(RandomShuffledClone(g, set), set, count)

\* sample(set, count)
RandomSample(g, set, count) ==
    IF NumLt(count, Fin(0)) \/ NumLt(Fin(Len(set)), count)
    THEN [draws |-> <<>>, thrown |-> TRUE, gen |-> g, input |-> set]
    ELSE RandomSampleReturn(RandomShuffledClone(g, set), set, count)

\* sum += val on a sum and a weight that are positive safe integers or 0
WeightAdd(sum, val) ==
    CASE sum.k = "fin" /\ val.k = "fin" -> Fin(sum.v + val.v)
      [] sum = Fin(0) -> val
      [] val = Fin(0) -> sum
      [] OTHER -> AboveSafe

\* the first loop of weightedChoice from entry i on: the sum, unless it throws
RECURSIVE WeightedChoiceSum(_, _, _)
WeightedChoiceSum(map, i, sum) ==
    IF i > Len(map) THEN [thrown |-> FALSE, sum |-> sum]
    ELSE LET val == map[i].weight
         IN IF ~(NumberIsSafeInteger(val) /\ NumLt(Fin(0), val))
            THEN [thrown |-> TRUE]
            ELSE WeightedChoiceSum(map, i + 1, WeightAdd(sum, val))

\* a safe integer that is not negative, as bit positions
SafeBits(a) == IF a.k = "maxsafe" THEN 0..52 ELSE ToInt32(a.v)

\* generator.int(range) on an IntRange whose bounds are not negative and may
\* exceed 32 bits; the bounds and the value returned are bit positions.
\* Xorshift32 computes next() % (max - min + 1) + min on numbers and
\* Xorshift128Plus the same on bigints, Number(this.bigint(range.toBigInt()));
\* every intermediate is a safe integer, so both are exact.
GeneratorIntBits(g, range) ==
    IF g.type = "Xorshift32"
    THEN [gen |-> Xorshift32Next(g).gen,
          value |-> Add(ModBig(Xorshift32Next(g).value,
                               Add(Sub(range.max, range.min), {0})),
                        range.min)]
    ELSE [gen |-> Xorshift128PlusNext(g).gen,
          value |-> Add(ModBig(Xorshift128PlusNext(g).value,
                               Add(Sub(range.max, range.min), {0})),
                        range.min)]

\* the second loop of weightedChoice from entry i on; the running total and the
\* number drawn are bit positions
RECURSIVE WeightedChoiceKey(_, _, _, _)
WeightedChoiceKey(map, i, totalWeight, random) ==
    IF i > Len(map) THEN [thrown |-> TRUE, never |-> TRUE]
    ELSE IF Geq(Add(totalWeight, SafeBits(map[i].weight)), random)
    THEN [thrown |-> FALSE, value |-> map[i].key, never |-> FALSE]
    ELSE WeightedChoiceKey(map, i + 1, Add(totalWeight, SafeBits(map[i].weight)), random)

\* weightedChoice(map) from its second loop on, d being what
\* generator.int(asked) returned
RandomWeightedChoiceDrawn(map, asked, d) ==
    LET found == WeightedChoiceKey(map, 1, {}, d.value)
    IN IF found.thrown
       THEN [draws |-> <<[value |-> d.value, range |-> asked]>>, thrown |-> TRUE,
             gen |-> d.gen, input |-> map, never |-> TRUE]
       ELSE [draws |-> <<[value |-> d.value, range |-> asked]>>, thrown |-> FALSE,
             gen |-> d.gen, value |-> found.value, input |-> map, never |-> FALSE]

\* a faulty variant: the draw is made before the weights are looked at
RandomWeightedChoiceDrawFirst(g, map) ==
    LET d == GeneratorIntBits(g, IntRangeMinMax({0}, {0}))
    IN [draws |-> <<[value |-> d.value, range |-> IntRangeMinMax({0}, {0})]>>,
        thrown |-> WeightedChoiceSum(map, 1, Fin(0)).thrown,
        gen |-> d.gen, input |-> map, never |-> FALSE]

\* weightedChoice(map); the range asked for is IntRange.minMax(1, sum) with its
\* bounds as bit positions
RandomWeightedChoice(g, map) ==
    LET checked == WeightedChoiceSum(map, 1, Fin(0))
    IN IF checked.thrown
       THEN [draws |-> <<>>, thrown |-> TRUE, gen |-> g, input |-> map, never |-> FALSE]
       ELSE LET r == IntRangeMinMaxOf(Fin(1), checked.sum)
            IN IF r.thrown
               THEN [draws |-> <<>>, thrown |-> TRUE, gen |-> g, input |-> map,
                     never |-> FALSE]
               ELSE RandomWeightedChoiceDrawn(
                        map, IntRangeMinMax(SafeBits(r.min), SafeBits(r.max)),
                        GeneratorIntBits(
                            g, IntRangeMinMax(SafeBits(r.min), SafeBits(r.max))))

\* generator.decimal(FiniteRange.minMax(0, 1))
GeneratorDecimal01(g) == Draw(g, [range |-> IntRangeMinMax(0, 1), op |-> "decimal"], 0)

\* d === c for what decimal returned on the range [0, 1] and c = 0 or c = 1: the
\* quotient num / den is 0 only for num = 0 and 1 only for num = den
DecimalIs(d, c) == IF c = 0 THEN d.num = {} ELSE d.num = d.den

\* a faulty variant: boxMuller takes the first two draws as they come
RandomBoxMullerNoRedraw(g) ==
    [draws |-> <<GeneratorDecimal01(g).value,
                 GeneratorDecimal01(GeneratorDecimal01(g).gen).value>>,
     gen |-> GeneratorDecimal01(GeneratorDecimal01(g).gen).gen,
     value |-> [a |-> GeneratorDecimal01(g).value,
                b |-> GeneratorDecimal01(GeneratorDecimal01(g).gen).value],
     returned |-> TRUE]

\* the second loop of boxMuller, d being what decimal returned on st.gen: it
\* never ends when the draw is refused and has left the engine as it was
RECURSIVE BoxMullerSecond(_, _)
BoxMullerSecond(st, d) ==
    IF DecimalIs(d.value, 1)
    THEN IF d.gen = st.gen
         THEN [draws |-> st.draws, gen |-> st.gen, returned |-> FALSE]
         ELSE BoxMullerSecond([draws |-> Append(st.draws, d.value), a |-> st.a,
                               gen |-> d.gen],
                              GeneratorDecimal01(d.gen))
    ELSE [draws |-> Append(st.draws, d.value), gen |-> d.gen,
          value |-> [a |-> st.a, b |-> d.value], returned |-> TRUE]

\* the first loop of boxMuller, d being what decimal returned on st.gen, and
\* what follows it
RECURSIVE BoxMullerFirst(_, _)
BoxMullerFirst(st, d) ==
    IF DecimalIs(d.value, 0)
    THEN IF d.gen = st.gen
         THEN [draws |-> st.draws, gen |-> st.gen, returned |-> FALSE]
         ELSE BoxMullerFirst([draws |-> Append(st.draws, d.value), gen |-> d.gen],
                             GeneratorDecimal01(d.gen))
    ELSE BoxMullerSecond([draws |-> Append(st.draws, d.value), a |-> d.value,
                          gen |-> d.gen],
                         GeneratorDecimal01(d.gen))

\* boxMuller(): the engine afterwards, the draws made, whether it returned and
\* the two numbers a and b that Math.sqrt(-2 * Math.log(a)) * Math.sin(2 * Math.PI * b)
\* is computed from
RandomBoxMuller(g) == BoxMullerFirst([draws |-> <<>>, gen |-> g], GeneratorDecimal01(g))

(***************************************************************************)
(* TripleAxisRotationBuilder and its ObjectCoordsSystem.  Rotations are    *)
(* objects: a reference is an index of the heap, and the heap has room for *)
(* the source rotation, the rotation an ObjectCoordsSystem holds and the   *)
(* rotation forward() returned last.                                       *)
(***************************************************************************)
Rotation(yaw, pitch, roll) == [yaw |-> yaw, pitch |-> pitch, roll |-> roll]

\* new TripleAxisRotationBuilder(yaw, pitch, roll)
TripleAxisRotationBuilderNew(yaw, pitch, roll) ==
    IF ~(nonNaN(yaw) /\ nonNaN(pitch) /\ nonNaN(roll))
    THEN [thrown |-> TRUE]
    ELSE [thrown |-> FALSE, rotation |-> Rotation(yaw, pitch, roll)]

\* set yaw, set pitch, set roll
TripleAxisRotationBuilderSetYaw(r, value) ==
    IF ~nonNaN(value) THEN [thrown |-> TRUE, rotation |-> r]
    ELSE [thrown |-> FALSE, rotation |-> [r EXCEPT !.yaw = value]]
TripleAxisRotationBuilderSetPitch(r, value) ==
    IF ~nonNaN(value) THEN [thrown |-> TRUE, rotation |-> r]
    ELSE [thrown |-> FALSE, rotation |-> [r EXCEPT !.pitch = value]]
TripleAxisRotationBuilderSetRoll(r, value) ==
    IF ~nonNaN(value) THEN [thrown |-> TRUE, rotation |-> r]
    ELSE [thrown |-> FALSE, rotation |-> [r EXCEPT !.roll = value]]

\* the heap with the objects outside keep dropped
Keep(h, keep) ==
    [i \in 1..Len(h) |-> IF i \in keep THEN h[i] ELSE Rotation(Fin(0), Fin(0), Fin(0))]

\* clone() of the rotation at index ref, the objects at keep being in use: the
\* heap with the new object and the reference to it.  The constructor throws
\* when operate left NaN in the rotation cloned.
TripleAxisRotationBuilderClone(h, ref, keep) ==
    LET new == CHOOSE i \in 1..Len(h) : i \notin keep /\ \A j \in 1..(i - 1) : j \in keep
        made == TripleAxisRotationBuilderNew(h[ref].yaw, h[ref].pitch, h[ref].roll)
    IN IF made.thrown THEN [thrown |-> TRUE, heap |-> h, ref |-> 0]
       ELSE [thrown |-> FALSE, heap |-> [Keep(h, keep) EXCEPT ![new] = made.rotation],
             ref |-> new]

\* a faulty variant: the system keeps the rotation it is given
ObjectCoordsSystemNewNoClone(h, rotation, keep) ==
    [thrown |-> FALSE, heap |-> Keep(h, keep), rotation |-> rotation]

\* new ObjectCoordsSystem(rotation): the heap afterwards and its __rotation__
ObjectCoordsSystemNew(h, rotation, keep) ==
    LET c == TripleAxisRotationBuilderClone(h, rotation, keep)
    IN [thrown |-> c.thrown, heap |-> c.heap, rotation |-> c.ref]

\* getObjectCoordsSystem() on the rotation at index ref
TripleAxisRotationBuilderGetObjectCoordsSystem(h, ref, keep) ==
    ObjectCoordsSystemNew(h, ref, keep)

\* forward() on the system whose __rotation__ is at index rotation
ObjectCoordsSystemForward(h, rotation, keep) ==
    TripleAxisRotationBuilderClone(h, rotation, keep)

(***************************************************************************)
(* DualAxisRotationBuilder: a yaw and a pitch.  An object passed where a   *)
(* Vector2 is expected is either another DualAxisRotationBuilder, whose x  *)
(* is its pitch and whose y is its yaw, or a plain object with x and y.    *)
(***************************************************************************)
Dual(yaw, pitch) == [yaw |-> yaw, pitch |-> pitch]
DualObject(yaw, pitch) == [yaw |-> yaw, pitch |-> pitch, builder |-> TRUE]
Vector2Object(x, y) == [x |-> x, y |-> y, builder |-> FALSE]

\* other.x and other.y
Vector2X(other) == IF other.builder THEN other.pitch ELSE other.x
Vector2Y(other) == IF other.builder THEN other.yaw ELSE other.y

\* DualAxisRotationBuilder.isVector2(value)
isVector2(value) == nonNaN(Vector2X(value)) /\ nonNaN(Vector2Y(value))

\* new DualAxisRotationBuilder(yaw, pitch)
DualAxisRotationBuilderNew(yaw, pitch) ==
    IF ~(nonNaN(yaw) /\ nonNaN(pitch))
    THEN [thrown |-> TRUE]
    ELSE [thrown |-> FALSE, rot |-> Dual(yaw, pitch)]

\* The callbacks passed to operate.  A unary one is component => component op by:
\* x => x + 1 is Callback("plus", Fin(1)), and scale and divide pass
\* component => component * scalar and component => component / scalar.  A binary
\* one is named: "plus" is (a, b) => a + b and "second" is (a, b) => b.  An
\* argument left out is "undefined".
Callback(fn, by) == [fn |-> fn, by |-> by]
IsFunction(a) == "fn" \in DOMAIN a
Apply1(callbackFn, component) ==
    CASE callbackFn.fn = "plus" -> fadd(component, callbackFn.by)
      [] callbackFn.fn = "times" -> fmul(component, callbackFn.by)
      [] callbackFn.fn = "over" -> fdiv(component, callbackFn.by)
Apply2(callbackFn, component1, component2) ==
    CASE callbackFn = "plus" -> fadd(component1, component2)
      [] callbackFn = "second" -> component2

\* set yaw, set pitch, and set x and set y, which go through them
DualAxisRotationBuilderSetYaw(r, value) ==
    IF ~nonNaN(value) THEN [thrown |-> TRUE, rot |-> r]
    ELSE [thrown |-> FALSE, rot |-> Dual(value, r.pitch)]
DualAxisRotationBuilderSetPitch(r, value) ==
    IF ~nonNaN(value) THEN [thrown |-> TRUE, rot |-> r]
    ELSE [thrown |-> FALSE, rot |-> Dual(r.yaw, value)]
DualAxisRotationBuilderSetX(r, value) == DualAxisRotationBuilderSetPitch(r, value)
DualAxisRotationBuilderSetY(r, value) == DualAxisRotationBuilderSetYaw(r, value)

\* r.operate(a, b): the fields are written without a check, so that a callback
\* may leave NaN in them
DualAxisRotationBuilderOperate(r, a, b) ==
    IF IsFunction(a) /\ b = "undefined"
    THEN [thrown |-> FALSE, rot |-> Dual(Apply1(a, r.yaw), Apply1(a, r.pitch))]
    ELSE IF ~IsFunction(a) /\ a.builder /\ b # "undefined"
    THEN [thrown |-> FALSE,
          rot |-> Dual(Apply2(b, r.yaw, a.yaw), Apply2(b, r.pitch, a.pitch))]
    ELSE IF ~IsFunction(a) /\ isVector2(a) /\ b # "undefined"
    THEN [thrown |-> FALSE, rot |-> Dual(Apply2(b, r.yaw, a.y), Apply2(b, r.pitch, a.x))]
    ELSE [thrown |-> TRUE, rot |-> r]

\* r.add(other): the rotation afterwards, whether it threw, other afterwards
DualAxisRotationBuilderAdd(r, other) ==
    IF ~isVector2(other)
    THEN [thrown |-> TRUE, other |-> other, rot |-> r]
    ELSE LET operated == DualAxisRotationBuilderOperate(r, other, "plus")
         IN [thrown |-> operated.thrown, other |-> other, rot |-> operated.rot]

\* r.scale(scalar)
DualAxisRotationBuilderScale(r, scalar) ==
    IF ~nonNaN(scalar) THEN [thrown |-> TRUE, rot |-> r]
    ELSE DualAxisRotationBuilderOperate(r, Callback("times", scalar), "undefined")

\* r.divide(scalar)
DualAxisRotationBuilderDivide(r, scalar) ==
    IF ~nonNaN(scalar) THEN [thrown |-> TRUE, rot |-> r]
    ELSE IF scalar = Fin(0) THEN [thrown |-> TRUE, rot |-> r]
    ELSE DualAxisRotationBuilderOperate(r, Callback("over", scalar), "undefined")

\* (value, min, max) => Math.max(min, Math.min(value, max))
Clamp(value, min, max) == fmax(min, fmin(value, max))

\* r.clamp(min, max): x and y are assigned through the setters one after the
\* other; when the second one throws, the first assignment stays
DualAxisRotationBuilderClamp(r, min, max) ==
    IF ~(isVector2(min) /\ isVector2(max)) THEN [thrown |-> TRUE, rot |-> r]
    ELSE LET x == DualAxisRotationBuilderSetX(
                      r, Clamp(r.pitch, Vector2X(min), Vector2X(max)))
         IN IF x.thrown THEN x
            ELSE DualAxisRotationBuilderSetY(
                     x.rot, Clamp(x.rot.yaw, Vector2Y(min), Vector2Y(max)))

\* DualAxisRotationBuilder.from(vector2)
DualAxisRotationBuilderFrom(vector2) ==
    DualAxisRotationBuilderNew(Vector2Y(vector2), Vector2X(vector2))

\* r.clone()
DualAxisRotationBuilderClone(r) == DualAxisRotationBuilderNew(r.yaw, r.pitch)

\* r.invert()
DualAxisRotationBuilderInvert(r) == Dual(fadd(r.yaw, Fin(180)), fmul(r.pitch, Fin(-1)))

\* r.subtract(other): this.add(DualAxisRotationBuilder.from(other).clone().invert())
DualAxisRotationBuilderSubtract(r, other) ==
    IF ~isVector2(other)
    THEN [thrown |-> TRUE, other |-> other, rot |-> r]
    ELSE LET inverted == DualAxisRotationBuilderInvert(
                             DualAxisRotationBuilderClone(
                                 DualAxisRotationBuilderFrom(other).rot).rot)
             added == DualAxisRotationBuilderAdd(
                          r, DualObject(inverted.yaw, inverted.pitch))
         IN [thrown |-> added.thrown, other |-> other, rot |-> added.rot]


(***************************************************************************)
(* The other mutators of TripleAxisRotationBuilder, on the fields r of the *)
(* receiver.  An argument is passed by its fields: none of these calls     *)
(* writes to it.  Each yields the set of outcomes the call may have.       *)
(***************************************************************************)
\* a instanceof TripleAxisRotationBuilder
IsTriple(a) == "roll" \in DOMAIN a

\* a.x and a.y of a rotation or a plain object
TripleX(a) == IF IsTriple(a) THEN a.pitch ELSE a.x
TripleY(a) == IF IsTriple(a) THEN a.yaw ELSE a.y

\* set x and set y go through set pitch and set yaw
TripleAxisRotationBuilderSetX(r, value) == TripleAxisRotationBuilderSetPitch(r, value)
TripleAxisRotationBuilderSetY(r, value) == TripleAxisRotationBuilderSetYaw(r, value)

\* r.operate(a, b)
TripleAxisRotationBuilderOperate(r, a, b) ==
    IF IsFunction(a) /\ b = "undefined"
    THEN [thrown |-> FALSE,
          rotation |-> Rotation(Apply1(a, r.yaw), Apply1(a, r.pitch), Apply1(a, r.roll))]
    ELSE IF ~IsFunction(a) /\ IsTriple(a) /\ b # "undefined"
    THEN [thrown |-> FALSE,
          rotation |-> Rotation(Apply2(b, r.yaw, a.yaw), Apply2(b, r.pitch, a.pitch),
                                Apply2(b, r.roll, a.roll))]
    ELSE [thrown |-> TRUE, rotation |-> r]

\* r.add(other)
TripleAxisRotationBuilderAdd(r, other) == TripleAxisRotationBuilderOperate(r, other, "plus")

\* r.scale(scalar)
TripleAxisRotationBuilderScale(r, scalar) ==
    IF ~nonNaN(scalar) THEN [thrown |-> TRUE, rotation |-> r]
    ELSE TripleAxisRotationBuilderOperate(r, Callback("times", scalar), "undefined")

\* r.divide(scalar)
TripleAxisRotationBuilderDivide(r, scalar) ==
    IF ~nonNaN(scalar) THEN [thrown |-> TRUE, rotation |-> r]
    ELSE IF scalar = Fin(0) THEN [thrown |-> TRUE, rotation |-> r]
    ELSE TripleAxisRotationBuilderOperate(r, Callback("over", scalar), "undefined")

\* TripleAxisRotationBuilder.from(vector2, zAngle)
TripleAxisRotationBuilderFrom(vector2, zAngle) ==
    TripleAxisRotationBuilderNew(TripleY(vector2), TripleX(vector2), zAngle)

\* r.invert(): the receiver takes the fields of getObjectCoordsSystem().back(),
\* which ofAxes computes with Math.atan2 and Math.asin from getX() and getY(),
\* themselves sines and cosines of the fields.  A field that is NaN, infinite or
\* Number.MAX_VALUE makes a NaN on the way and a constructor or cross() throws.
\* Of the angles computed from finite fields the model holds that they are
\* finite numbers.  At a pitch of 90 degrees plus a multiple of 180 the
\* argument of Math.asin is 1 up to rounding, and where it is rounded above 1
\* the pitch is NaN and the constructor in ofAxes throws: both outcomes are kept
\* there, and for a pitch the model does not hold.
TripleAxisRotationBuilderInvert(r) ==
    IF \E c \in {r.yaw, r.pitch, r.roll} : c.k \in {"nan", "inf", "max"}
    THEN {[thrown |-> TRUE, rotation |-> r]}
    ELSE {[thrown |-> FALSE, rotation |-> Rotation(Out(0), Out(0), Out(0))]}
         \cup (IF \/ \E c \in {r.yaw, r.pitch, r.roll} : c.k = "unknown"
                  \/ r.pitch.k = "out"
                  \/ (r.pitch.k = "fin" /\ r.pitch.v % 180 = 90)
               THEN {[thrown |-> TRUE, rotation |-> r]}
               ELSE {})

\* r.subtract(other): this.add(TripleAxisRotationBuilder.from(other).clone().invert())
TripleAxisRotationBuilderSubtract(r, other) ==
    LET from == TripleAxisRotationBuilderFrom(other, Fin(0))
    IN IF from.thrown THEN {[thrown |-> TRUE, rotation |-> r]}
       ELSE { IF inverted.thrown THEN [thrown |-> TRUE, rotation |-> r]
              ELSE TripleAxisRotationBuilderAdd(r, inverted.rotation) :
                 inverted \in TripleAxisRotationBuilderInvert(
                                  TripleAxisRotationBuilderNew(
                                      from.rotation.yaw, from.rotation.pitch,
                                      from.rotation.roll).rotation) }

\* r.clamp(min, max): x and y are assigned through the setters, the roll is
\* written only when min and max are both rotations, and without a check
TripleAxisRotationBuilderClamp(r, min, max) ==
    LET x == TripleAxisRotationBuilderSetX(r, Clamp(r.pitch, TripleX(min), TripleX(max)))
    IN IF x.thrown THEN x
       ELSE LET y == TripleAxisRotationBuilderSetY(
                         x.rotation, Clamp(x.rotation.yaw, TripleY(min), TripleY(max)))
            IN IF y.thrown THEN y
               ELSE IF IsTriple(min) /\ IsTriple(max)
               THEN [thrown |-> FALSE,
                     rotation |-> [y.rotation EXCEPT
                                      !.roll = Clamp(y.rotation.roll, min.roll, max.roll)]]
               ELSE y


(***************************************************************************)
(* Class Random: uuid, chance, sign, choice and the random rotations.      *)
(***************************************************************************)
\* 'xxxxxxxx-xxxx-4xxx-yxxx-xxxxxxxxxxxx'.split('')
UuidChars ==
    <<"x", "x", "x", "x", "x", "x", "x", "x", "-", "x", "x", "x", "x",
      "-", "4", "x", "x", "x", "-", "y", "x", "x", "x", "-", "x", "x",
      "x", "x", "x", "x", "x", "x", "x", "x", "x", "x">>

\* Number.prototype.toString(16) on 0 .. 15
Hex == <<"0", "1", "2", "3", "4", "5", "6", "7", "8", "9", "a", "b", "c", "d", "e", "f">>

\* chars[i] = generator.int(range).toString(16), d being what int returned
\* (chars[i] of the model is chars[i - 1] of the code)
RandomUuidDrawn(st, i, range, d) ==
    [draws |-> Append(st.draws, [value |-> d.value, range |-> range]),
     gen |-> d.gen,
     chars |-> [st.chars EXCEPT ![i] = Hex[d.value + 1]]]

\* the range uuid asks for at an 'x' and at a 'y'
UuidRange(char) == IF char = "x" THEN IntRangeMinMax(0, 15) ELSE IntRangeMinMax(8, 11)

\* the body of the loop of uuid for chars[i]
RandomUuidStep(st, i) ==
    IF st.chars[i] \in {"x", "y"}
    THEN RandomUuidDrawn(st, i, UuidRange(st.chars[i]),
                         GeneratorInt(st.gen, UuidRange(st.chars[i])))
    ELSE st

\* the loop of uuid over chars lo..hi
RECURSIVE RandomUuidLoop(_, _, _)
RandomUuidLoop(st, lo, hi) ==
    IF lo = hi THEN RandomUuidStep(st, lo)
    ELSE LET mid == (lo + hi) \div 2
             l == RandomUuidLoop(st, lo, mid)
         IN IF Len(l.chars) = 0 THEN l ELSE RandomUuidLoop(l, mid + 1, hi)

\* what uuid() returns once its loop has left st: the value is chars before
\* chars.join('')
RandomUuidReturn(st) ==
    [draws |-> st.draws, thrown |-> FALSE, gen |-> st.gen, value |-> st.chars,
     input |-> "none"]

\* uuid()
RandomUuid(g) ==
    RandomUuidReturn(RandomUuidLoop([draws |-> <<>>, gen |-> g, chars |-> UuidChars],
                                    1, Len(UuidChars)))

\* d < chance for what decimal returned on the range [0, 1], num / den: no
\* quotient the engines form is within an ulp of 0.5 or of 1 without being
\* it, so the comparison of the doubles is that of the fractions
DecimalLt(d, chance) ==
    CASE chance.k = "nan" -> FALSE
      [] chance.k = "inf" -> chance.v > 0
      [] chance.k = "half" ->
            IF chance.v = 0 THEN ~Geq(Shl(d.num, 1), d.den) ELSE chance.v > 0
      [] chance.k = "fin" -> IF chance.v = 1 THEN d.num # d.den ELSE chance.v > 1

\* chance(chance), d being what decimal returned
RandomChanceDrawn(chance, d) ==
    [draws |-> <<d.value>>, thrown |-> FALSE, gen |-> d.gen,
     value |-> DecimalLt(d.value, chance), input |-> "none"]

\* chance(chance)
RandomChance(g, chance) == RandomChanceDrawn(chance, GeneratorDecimal01(g))

\* sign(): this.chance(0.5) ? 1 : -1, c being what chance returned
RandomSignOf(c) ==
    [draws |-> c.draws, thrown |-> FALSE, gen |-> c.gen,
     value |-> IF c.value THEN 1 ELSE -1, input |-> "none"]
RandomSign(g) == RandomSignOf(RandomChance(g, Half(0)))

\* choice(list), d being what int returned
RandomChoiceDrawn(list, d) ==
    [draws |-> <<[value |-> d.value, range |-> IntRangeMinMax(0, Len(list) - 1)]>>,
     thrown |-> FALSE, gen |-> d.gen, value |-> list[d.value + 1], input |-> list]

\* choice(list): IntRange.minMax(0, -1) throws on the empty list
RandomChoice(g, list) ==
    IF IntRangeMinMaxOf(Fin(0), Fin(Len(list) - 1)).thrown
    THEN [draws |-> <<>>, thrown |-> TRUE, gen |-> g, input |-> list]
    ELSE RandomChoiceDrawn(list, GeneratorInt(g, IntRangeMinMax(0, Len(list) - 1)))

\* generator.decimal(FiniteRange.minMax(min, max))
GeneratorDecimal(g, min, max) ==
    Draw(g, [range |-> IntRangeMinMax(min, max), op |-> "decimal"], 0)

\* rotation2(): new DualAxisRotationBuilder(yaw, pitch) on two decimals, drawn
\* in this order.  A decimal is a finite number, so the constructor does not
\* throw; the yaw and the pitch are held as decimal returned them.
RandomRotation2Made(yaw, pitch) ==
    [draws |-> <<yaw.value, pitch.value>>, thrown |-> FALSE, gen |-> pitch.gen,
     value |-> Dual(yaw.value, pitch.value), input |-> "none"]
RandomRotation2Pitch(yaw) == RandomRotation2Made(yaw, GeneratorDecimal(yaw.gen, -90, 90))
RandomRotation2(g) == RandomRotation2Pitch(GeneratorDecimal(g, -180, 180))

\* new TripleAxisRotationBuilder(yaw, pitch, roll) on three decimals, the yaw
\* and the roll drawn from [-180, max]
RandomRotation3Made(yaw, pitch, roll) ==
    [draws |-> <<yaw.value, pitch.value, roll.value>>, thrown |-> FALSE,
     gen |-> roll.gen, value |-> Rotation(yaw.value, pitch.value, roll.value),
     input |-> "none"]
RandomRotation3Roll(yaw, pitch, max) ==
    RandomRotation3Made(yaw, pitch, GeneratorDecimal(pitch.gen, -180, max))
RandomRotation3Pitch(yaw, max) ==
    RandomRotation3Roll(yaw, GeneratorDecimal(yaw.gen, -90, 90), max)
RandomRotation3Max(g, max) == RandomRotation3Pitch(GeneratorDecimal(g, -180, max), max)

\* rotation3(), and rotation() of the older copy, which draws from [-180, 179]
RandomRotation3(g) == RandomRotation3Max(g, 180)
RandomRotation(g) == RandomRotation3Max(g, 179)


(***************************************************************************)
(* Each specification runs one part of the library; the variables of the   *)
(* other parts keep the values below.                                      *)
(***************************************************************************)
RngIdle ==
    /\ type = "none"
    /\ seedA = 0
    /\ seedB = 0
    /\ genA = "none"
    /\ genB = "none"
    /\ call = NoCall
    /\ outA = "none"
    /\ outB = "none"
    /\ draws = 0

VecIdle ==
    /\ vec = Vec(Fin(0), Fin(0), Fin(0))
    /\ prev = Vec(Fin(0), Fin(0), Fin(0))
    /\ vop = "none"
    /\ thrown = FALSE
    /\ nanOperand = FALSE
    /\ vcalls = 0
    /\ arg = "none"
    /\ argAfter = "none"
    /\ lastAdd = [made |-> FALSE]
    /\ crossed = [made |-> FALSE]

RangeIdle ==
    /\ ranged = "none"
    /\ rangeOp = "none"
    /\ clampIn = "none"
    /\ clampOut = "none"
    /\ clamps = 0

FacadeIdle ==
    /\ version = "none"
    /\ rop = "none"
    /\ rin = "none"
    /\ rout = "none"
    /\ genBefore = "none"
    /\ rcalls = 0

RotIdle ==
    /\ heap = <<>>
    /\ system = 0
    /\ forwarded = 0
    /\ snapshot = "none"
    /\ rotOp = "none"
    /\ rotThrown = FALSE
    /\ touched = FALSE
    /\ rotSteps = 0

DualIdle ==
    /\ dual = "none"
    /\ dualPrev = "none"
    /\ dualOp = "none"
    /\ dualThrown = FALSE
    /\ dualArg = "none"
    /\ dualArgAfter = "none"
    /\ dualLastAdd = [made |-> FALSE]
    /\ dualCalls = 0


(***************************************************************************)
(* Registry<V>: a Set of RegistryEntry objects, held in insertion order.   *)
(* An Identifier is [namespace, value]; an entry is [identifier, value].   *)
(***************************************************************************)
MaxRegistryCalls == 4

\* Identifier.equals
IdentifierEquals(a, b) == a.namespace = b.namespace /\ a.value = b.value

\* the values this.type.test accepts
TypedValues == {"v1", "v2"}
TypeTest(v) == v \in TypedValues

\* has(identifier)
RegistryHas(es, identifier) ==
    \E i \in 1..Len(es) : IdentifierEquals(es[i].identifier, identifier)

\* the first entry, in iteration order, whose identifier equals identifier
RegistryFind(es, identifier) ==
    CHOOSE i \in 1..Len(es) :
       /\ IdentifierEquals(es[i].identifier, identifier)
       /\ \A j \in 1..(i - 1) : ~IdentifierEquals(es[j].identifier, identifier)

\* a faulty variant: register does not ask has(identifier)
RegistryRegisterNoHas(es, identifier, value) ==
    IF ~TypeTest(value) THEN [thrown |-> TRUE, entries |-> es]
    ELSE [thrown |-> FALSE,
          entries |-> Append(es, [value |-> value, identifier |-> identifier]),
          value |-> [value |-> value, identifier |-> identifier]]

\* register(identifier, value)
RegistryRegister(es, identifier, value) ==
    IF RegistryHas(es, identifier) THEN [thrown |-> TRUE, entries |-> es]
    ELSE IF ~TypeTest(value) THEN [thrown |-> TRUE, entries |-> es]
    ELSE [thrown |-> FALSE,
          entries |-> Append(es, [value |-> value, identifier |-> identifier]),
          value |-> [value |-> value, identifier |-> identifier]]

\* unregister(identifier)
RegistryUnregister(es, identifier) ==
    IF ~RegistryHas(es, identifier) THEN [thrown |-> TRUE, entries |-> es]
    ELSE LET i == RegistryFind(es, identifier)
         IN [thrown |-> FALSE,
             entries |-> SubSeq(es, 1, i - 1) \o SubSeq(es, i + 1, Len(es)), value |-> es[i]]

\* get(identifier)
RegistryGet(es, identifier) ==
    IF ~RegistryHas(es, identifier) THEN [thrown |-> TRUE, entries |-> es]
    ELSE [thrown |-> FALSE, entries |-> es,
          value |-> es[RegistryFind(es, identifier)].value]

Identifiers ==
    { [value |-> "x", namespace |-> "a"], [value |-> "y", namespace |-> "a"],
      [value |-> "x", namespace |-> "b"] }

RegIdle ==
    /\ entries = <<>>
    /\ regOp = "none"
    /\ regId = "none"
    /\ regValue = "none"
    /\ regThrown = FALSE
    /\ regOut = [made |-> FALSE]
    /\ registered = [id \in Identifiers |-> "absent"]
    /\ regCalls = 0

(***************************************************************************)
(* Serializer: the set of hidden prototypes.  Objects are named by        *)
(* strings: class C {}, class D {}, a function E whose prototype property  *)
(* was set to C, an arrow function (no prototype property), and the        *)
(* prototype objects of C and D.                                           *)
(***************************************************************************)
MaxSerializerCalls == 4

Classes == {"C", "D", "E", "arrow"}

\* clazz.prototype
PrototypeOf(clazz) ==
    CASE clazz = "C" -> "C.prototype"
      [] clazz = "D" -> "D.prototype"
      [] clazz = "E" -> "C"
      [] OTHER -> "undefined"

\* the instances new C(), new D(), new E()
Instances == {"new C", "new D", "new E"}

\* the objects getPrototypeOf is called on: the instances, the four functions,
\* and the prototype objects serialize() walks up to (prototype() recurses
\* through object() until getPrototypeOf returns null)
Objects ==
    Instances \cup Classes
       \cup {"C.prototype", "D.prototype", "Function.prototype", "Object.prototype"}

\* Object.getPrototypeOf(object): the prototype chain ends at Object.prototype,
\* whose prototype is null; a function's prototype is Function.prototype
ObjectGetPrototypeOf(object) ==
    CASE object = "new C" -> PrototypeOf("C")
      [] object = "new D" -> PrototypeOf("D")
      [] object = "new E" -> PrototypeOf("E")
      [] object \in Classes -> "Function.prototype"
      [] object = "Object.prototype" -> "null"
      [] OTHER -> "Object.prototype"

\* hidePrototypeOf(clazz)
SerializerHidePrototypeOf(hidden, clazz) ==
    IF PrototypeOf(clazz) = "undefined" THEN [thrown |-> TRUE, hidden |-> hidden]
    ELSE IF PrototypeOf(clazz) \notin hidden
         THEN [thrown |-> FALSE, hidden |-> hidden \cup {PrototypeOf(clazz)}]
         ELSE [thrown |-> FALSE, hidden |-> hidden]

\* unhidePrototypeOf(clazz): what is deleted is clazz
SerializerUnhidePrototypeOf(hidden, clazz) ==
    IF PrototypeOf(clazz) = "undefined" THEN [thrown |-> TRUE, hidden |-> hidden]
    ELSE IF PrototypeOf(clazz) \in hidden
         THEN [thrown |-> FALSE, hidden |-> hidden \ {clazz}]
         ELSE [thrown |-> FALSE, hidden |-> hidden]

\* getPrototypeOf(object): null for a hidden prototype
SerializerGetPrototypeOf(hidden, object) ==
    LET prototype == ObjectGetPrototypeOf(object)
    IN IF object = prototype THEN [thrown |-> TRUE, value |-> "none"]
       ELSE IF prototype \in hidden THEN [thrown |-> FALSE, value |-> "null"]
       ELSE [thrown |-> FALSE, value |-> prototype]

NoSerCall == [arg |-> "none", op |-> "none"]

SerIdle ==
    /\ hiddenPrototypes = {}
    /\ serOp = "none"
    /\ serArg = "none"
    /\ serThrown = FALSE
    /\ serOut = "none"
    /\ serPrev = NoSerCall
    /\ serCalls = 0

PairIdle ==
    /\ drawsB = 0
    /\ scriptA = <<>>
    /\ scriptB = <<>>
    /\ builtB = FALSE
    /\ queryB = "none"
    /\ queriesB = 0
    /\ factoryB = FALSE

NoiseIdle ==
    /\ built = FALSE
    /\ permutation = <<>>
    /\ offset = <<>>
    /\ permutationB = <<>>
    /\ offsetB = <<>>
    /\ query = "none"
    /\ noiseA = "none"
    /\ noiseB = "none"
    /\ pointA = "none"
    /\ firstQuery = "none"
    /\ firstNoise = "none"
    /\ queries = 0
    /\ lookups = <<>>
    /\ PairIdle

(***************************************************************************)
(* Inputs of the vector specification.                                     *)
(***************************************************************************)
NewVectors ==
    {<<Fin(0), Fin(0), Fin(0)>>, <<Fin(1), Fin(0), Fin(0)>>, <<Fin(0), Fin(-2), Fin(0)>>,
     <<Fin(1), Fin(1), Fin(1)>>, <<Fin(2), Fin(-1), Fin(2)>>, <<PInf, Fin(0), Fin(0)>>,
     <<PInf, NInf, Fin(1)>>, <<Fin(0), NaN, Fin(0)>>, <<MaxValue, Fin(1), Fin(0)>>}
Scalars == {Fin(0), Fin(1), Fin(-1), Fin(2), PInf, NaN}
Angles == {Fin(0), Fin(90), Fin(180), PInf, NaN}
ArgVectors ==
    {Vec(Fin(0), Fin(0), Fin(0)), Vec(Fin(1), Fin(0), Fin(0)), Vec(Fin(0), Fin(1), Fin(1)),
     Vec(PInf, Fin(0), Fin(0)), Vec(NInf, Fin(0), Fin(0)),
     Vec(PInf, NInf, Fin(1)), Vec(Fin(0), NaN, PInf), Vec(MaxValue, Fin(0), MaxValue)}
ClampVectors ==
    {Vec(Fin(0), Fin(0), Fin(0)), Vec(Fin(1), Fin(1), Fin(1)),
     Vec(NInf, Fin(-1), PInf), Vec(NaN, Fin(0), Fin(0))}
Axes ==
    {Vec(Fin(0), Fin(1), Fin(0)), Vec(PInf, Fin(0), Fin(0)), Vec(Fin(0), NaN, Fin(1))}

\* does the vector have a NaN component
HasNaN(v) == ~isVector3(v)

\* the components the model holds: no Out and no Unknown, integers within MaxMag
InDomain(a) == a.k \notin {"out", "unknown"} /\ (a.k = "fin" => Abs(a.v) <= MaxMag)
VecInDomain(v) == InDomain(v.x) /\ InDomain(v.y) /\ InDomain(v.z)

(***************************************************************************)
(* The vector specification: one Vector3Builder is constructed, then       *)
(* operations are called on it one after the other.                        *)
(***************************************************************************)
VecInit ==
    /\ RngIdle
    /\ NoiseIdle
    /\ RangeIdle
    /\ FacadeIdle
    /\ RotIdle
    /\ DualIdle
    /\ RegIdle
    /\ SerIdle
    /\ \E a \in NewVectors :
          LET n == Vector3BuilderNew(a[1], a[2], a[3])
          IN /\ ~n.thrown
             /\ vec = n.vec
             /\ prev = n.vec
    /\ vop = "new"
    /\ thrown = FALSE
    /\ nanOperand = FALSE
    /\ vcalls = 0
    /\ arg = "none"
    /\ argAfter = "none"
    /\ lastAdd = [made |-> FALSE]
    /\ crossed = [made |-> FALSE]

\* the call named name returned r; nan tells whether one of its operands was NaN
VecCallOn(name, r, nan) ==
    /\ vcalls < MaxVecCalls
    /\ VecInDomain(r.vec)
    /\ vcalls' = vcalls + 1
    /\ UNCHANGED rngVars
    /\ UNCHANGED noiseVars
    /\ UNCHANGED rangeVars
    /\ UNCHANGED facadeVars
    /\ UNCHANGED rotVars
    /\ UNCHANGED dualVars
    /\ UNCHANGED regVars
    /\ UNCHANGED serVars
    /\ vec' = r.vec
    /\ prev' = vec
    /\ thrown' = r.thrown
    /\ vop' = name
    /\ nanOperand' = nan
    /\ lastAdd' = IF vop = "add" /\ ~thrown
                  THEN [other |-> arg, made |-> TRUE, before |-> prev]
                  ELSE [made |-> FALSE]

\* a call that is passed no vector
VecCall(name, r, nan) ==
    /\ VecCallOn(name, r, nan)
    /\ arg' = "none"
    /\ argAfter' = "none"
    /\ crossed' = [made |-> FALSE]

\* a call that is passed the vector other
VecCallWith(name, r, nan, other) ==
    /\ VecCallOn(name, r, nan)
    /\ arg' = other
    /\ argAfter' = r.other
    /\ crossed' = [made |-> FALSE]

VecSetX == \E s \in Scalars : VecCall("set x", Vector3BuilderSetX(vec, s), ~nonNaN(s))
VecSetY == \E s \in Scalars : VecCall("set y", Vector3BuilderSetY(vec, s), ~nonNaN(s))
VecSetZ == \E s \in Scalars : VecCall("set z", Vector3BuilderSetZ(vec, s), ~nonNaN(s))
VecOperate ==
    \E o \in ArgVectors :
       VecCallWith("operate", Vector3BuilderOperateTimes(vec, o), HasNaN(o), o)
VecAdd == \E o \in ArgVectors : VecCallWith("add", Vector3BuilderAdd(vec, o), HasNaN(o), o)
VecSubtract ==
    \E o \in ArgVectors :
       VecCallWith("subtract", Vector3BuilderSubtract(vec, o), HasNaN(o), o)
\* vec.cross(o), and o.cross(vec).invert() on copies of the two vectors
VecCross ==
    \E o \in ArgVectors :
       LET ab == Vector3BuilderCross(vec, o)
           ba == Vector3BuilderCross(o, vec)
           inverted == IF ba.thrown THEN ba ELSE Vector3BuilderInvert(ba.value)
       IN /\ VecCallOn("cross", ab, HasNaN(o))
          /\ arg' = o
          /\ argAfter' = ab.other
          /\ crossed' = [made |-> TRUE,
                         ab |-> IF ab.thrown THEN [thrown |-> TRUE]
                                ELSE [thrown |-> FALSE, value |-> ab.value],
                         ba |-> IF inverted.thrown THEN [thrown |-> TRUE]
                                ELSE [thrown |-> FALSE, value |-> inverted.vec]]
VecScale == \E s \in Scalars : VecCall("scale", Vector3BuilderScale(vec, s), ~nonNaN(s))
VecDivide == \E s \in Scalars : VecCall("divide", Vector3BuilderDivide(vec, s), ~nonNaN(s))
VecInvert == VecCall("invert", Vector3BuilderInvert(vec), FALSE)
VecSetLength ==
    \E s \in Scalars : VecCall("length", Vector3BuilderSetLength(vec, s), ~nonNaN(s))
VecNormalize == VecCall("normalize", Vector3BuilderNormalize(vec), FALSE)
VecClamp ==
    \E lo \in ClampVectors, hi \in ClampVectors :
       VecCall("clamp", Vector3BuilderClamp(vec, lo, hi), HasNaN(lo) \/ HasNaN(hi))
VecRotate ==
    \E axis \in Axes, angle \in Angles :
       VecCall("rotate", Vector3BuilderRotate(vec, axis, angle),
               HasNaN(axis) \/ ~nonNaN(angle))

VecNext ==
    \/ VecSetX \/ VecSetY \/ VecSetZ
    \/ VecOperate \/ VecAdd \/ VecSubtract \/ VecCross
    \/ VecScale \/ VecDivide \/ VecInvert
    \/ VecSetLength \/ VecNormalize
    \/ VecClamp \/ VecRotate

(***************************************************************************)
(* The DualAxisRotationBuilder specification: one rotation is constructed, *)
(* then its setters (yaw, pitch, x, y) and operate, add, subtract, scale,  *)
(* divide, invert and clamp are called on it one after the other.          *)
(***************************************************************************)
NewDuals == {<<Fin(0), Fin(0)>>, <<Fin(10), Fin(20)>>, <<Fin(-90), Fin(45)>>, <<PInf, Fin(0)>>}
\* the last builder is one that operate left holding NaN
DualArguments ==
    {DualObject(Fin(0), Fin(0)), DualObject(Fin(30), Fin(5)), DualObject(Fin(-180), Fin(-45)),
     Vector2Object(Fin(5), Fin(30)), Vector2Object(Fin(0), Fin(-90)),
     Vector2Object(NaN, Fin(1)), DualObject(NInf, Fin(0)), DualObject(NaN, Fin(0))}
\* the numbers assigned through the setters and passed to scale and divide
DualValues == {Fin(0), Fin(2), Fin(-1), PInf, NaN}
\* the bounds passed to clamp
DualBounds ==
    {<<DualObject(Fin(0), Fin(0)), DualObject(Fin(30), Fin(5))>>,
     <<Vector2Object(Fin(0), Fin(-90)), Vector2Object(Fin(5), Fin(30))>>,
     <<DualObject(NInf, Fin(0)), DualObject(Fin(30), Fin(5))>>,
     <<Vector2Object(NaN, Fin(1)), Vector2Object(Fin(5), Fin(30))>>}
\* x => x + 1, x => x * NaN
UnaryCallbacks == {Callback("plus", Fin(1)), Callback("times", NaN)}
BinaryCallbacks == {"plus", "second"}
NoVector == [made |-> FALSE, builder |-> FALSE]

DualInit ==
    /\ RngIdle
    /\ VecIdle
    /\ NoiseIdle
    /\ RangeIdle
    /\ FacadeIdle
    /\ RotIdle
    /\ RegIdle
    /\ SerIdle
    /\ \E a \in NewDuals :
          /\ dual = DualAxisRotationBuilderNew(a[1], a[2]).rot
          /\ dualPrev = dual
    /\ dualOp = "new"
    /\ dualThrown = FALSE
    /\ dualArg = NoVector
    /\ dualArgAfter = NoVector
    /\ dualLastAdd = [made |-> FALSE]
    /\ dualCalls = 0

\* the call named name, passed other, returned r; the model takes the calls
\* whose result it holds
DualCall(name, r, other) ==
    /\ dualCalls < MaxDualCalls
    /\ r.rot.yaw.k # "unknown"
    /\ r.rot.pitch.k # "unknown"
    /\ dualCalls' = dualCalls + 1
    /\ dual' = r.rot
    /\ dualPrev' = dual
    /\ dualOp' = name
    /\ dualThrown' = r.thrown
    /\ dualArg' = other
    /\ dualArgAfter' = r.other
    /\ dualLastAdd' = IF dualOp = "add" /\ ~dualThrown
                      THEN [other |-> dualArg, made |-> TRUE, before |-> dualPrev]
                      ELSE [made |-> FALSE]
    /\ UNCHANGED rngVars
    /\ UNCHANGED vecVars
    /\ UNCHANGED noiseVars
    /\ UNCHANGED rangeVars
    /\ UNCHANGED facadeVars
    /\ UNCHANGED rotVars
    /\ UNCHANGED regVars
    /\ UNCHANGED serVars

\* a call that is passed no Vector2, or that reads its Vector2 only
DualMutate(name, r, other) ==
    DualCall(name, [thrown |-> r.thrown, other |-> other, rot |-> r.rot], other)

DualAdd == \E o \in DualArguments : DualCall("add", DualAxisRotationBuilderAdd(dual, o), o)
DualSubtract ==
    \E o \in DualArguments : DualCall("subtract", DualAxisRotationBuilderSubtract(dual, o), o)
DualInvert ==
    DualMutate("invert", [thrown |-> FALSE, rot |-> DualAxisRotationBuilderInvert(dual)],
               NoVector)
DualSetYaw ==
    \E v \in DualValues :
       DualMutate("set yaw", DualAxisRotationBuilderSetYaw(dual, v), NoVector)
DualSetPitch ==
    \E v \in DualValues :
       DualMutate("set pitch", DualAxisRotationBuilderSetPitch(dual, v), NoVector)
DualSetX ==
    \E v \in DualValues :
       DualMutate("set x", DualAxisRotationBuilderSetX(dual, v), NoVector)
DualSetY ==
    \E v \in DualValues :
       DualMutate("set y", DualAxisRotationBuilderSetY(dual, v), NoVector)
DualScale ==
    \E v \in DualValues :
       DualMutate("scale", DualAxisRotationBuilderScale(dual, v), NoVector)
DualDivide ==
    \E v \in DualValues :
       DualMutate("divide", DualAxisRotationBuilderDivide(dual, v), NoVector)
DualClamp ==
    \E m \in DualBounds :
       DualMutate("clamp", DualAxisRotationBuilderClamp(dual, m[1], m[2]), m[1])
\* operate(callbackFn), operate(other, callbackFn), and operate(other) without one
DualOperate ==
    \/ \E a \in UnaryCallbacks :
          DualMutate("operate", DualAxisRotationBuilderOperate(dual, a, "undefined"),
                     NoVector)
    \/ \E o \in DualArguments, b \in BinaryCallbacks \cup {"undefined"} :
          DualMutate("operate", DualAxisRotationBuilderOperate(dual, o, b), o)

DualNext ==
    \/ DualAdd \/ DualSubtract \/ DualInvert
    \/ DualSetYaw \/ DualSetPitch \/ DualSetX \/ DualSetY
    \/ DualScale \/ DualDivide \/ DualClamp \/ DualOperate

SpecDual == DualInit /\ [][DualNext]_vars


(***************************************************************************)
(* The Registry specification: a registry is constructed, then register,   *)
(* unregister and get are called on it.                                    *)
(***************************************************************************)
RegistryValues == TypedValues \cup {"untyped"}

RegInit ==
    /\ RngIdle
    /\ VecIdle
    /\ NoiseIdle
    /\ RangeIdle
    /\ FacadeIdle
    /\ RotIdle
    /\ DualIdle
    /\ SerIdle
    /\ entries = <<>>
    /\ regOp = "new"
    /\ regId = "none"
    /\ regValue = "none"
    /\ regThrown = FALSE
    /\ regOut = [made |-> FALSE]
    /\ registered = [id \in Identifiers |-> "absent"]
    /\ regCalls = 0

\* the call named name on identifier (and value) returned r; still is what the
\* history holds for identifier if the call did not throw
RegCall(name, identifier, value, r, still) ==
    /\ regCalls < MaxRegistryCalls
    /\ regCalls' = regCalls + 1
    /\ regOp' = name
    /\ regId' = identifier
    /\ regValue' = value
    /\ entries' = r.entries
    /\ regThrown' = r.thrown
    /\ regOut' = IF r.thrown THEN [made |-> FALSE] ELSE [value |-> r.value, made |-> TRUE]
    /\ registered' = IF r.thrown THEN registered
                     ELSE [registered EXCEPT ![identifier] = still]
    /\ UNCHANGED rngVars
    /\ UNCHANGED vecVars
    /\ UNCHANGED noiseVars
    /\ UNCHANGED rangeVars
    /\ UNCHANGED facadeVars
    /\ UNCHANGED rotVars
    /\ UNCHANGED dualVars
    /\ UNCHANGED serVars

RegRegister ==
    \E id \in Identifiers, v \in RegistryValues :
       RegCall("register", id, v, RegistryRegister(entries, id, v), v)
RegUnregister ==
    \E id \in Identifiers :
       RegCall("unregister", id, "none", RegistryUnregister(entries, id), "absent")
RegGet ==
    \E id \in Identifiers :
       RegCall("get", id, "none", RegistryGet(entries, id), registered[id])

RegNext == RegRegister \/ RegUnregister \/ RegGet

SpecRegistry == RegInit /\ [][RegNext]_vars

(***************************************************************************)
(* The Serializer specification: a serializer is constructed, then         *)
(* hidePrototypeOf, unhidePrototypeOf and getPrototypeOf are called on it. *)
(***************************************************************************)
SerInit ==
    /\ RngIdle
    /\ VecIdle
    /\ NoiseIdle
    /\ RangeIdle
    /\ FacadeIdle
    /\ RotIdle
    /\ DualIdle
    /\ RegIdle
    /\ hiddenPrototypes = {}
    /\ serOp = "new"
    /\ serArg = "none"
    /\ serThrown = FALSE
    /\ serOut = "none"
    /\ serPrev = NoSerCall
    /\ serCalls = 0

\* the call named name on a left the hidden set hidden, threw or not, returned out
SerCall(name, a, hidden, threw, out) ==
    /\ serCalls < MaxSerializerCalls
    /\ serCalls' = serCalls + 1
    /\ serOp' = name
    /\ serArg' = a
    /\ hiddenPrototypes' = hidden
    /\ serThrown' = threw
    /\ serOut' = out
    /\ serPrev' = [arg |-> serArg, op |-> serOp]
    /\ UNCHANGED rngVars
    /\ UNCHANGED vecVars
    /\ UNCHANGED noiseVars
    /\ UNCHANGED rangeVars
    /\ UNCHANGED facadeVars
    /\ UNCHANGED rotVars
    /\ UNCHANGED dualVars
    /\ UNCHANGED regVars

SerHide ==
    \E c \in Classes :
       \E r \in {SerializerHidePrototypeOf(hiddenPrototypes, c)} :
          SerCall("hidePrototypeOf", c, r.hidden, r.thrown, "none")
SerUnhide ==
    \E c \in Classes :
       \E r \in {SerializerUnhidePrototypeOf(hiddenPrototypes, c)} :
          SerCall("unhidePrototypeOf", c, r.hidden, r.thrown, "none")
SerGetPrototypeOf ==
    \E o \in Objects :
       \E r \in {SerializerGetPrototypeOf(hiddenPrototypes, o)} :
          SerCall("getPrototypeOf", o, hiddenPrototypes, r.thrown, r.value)

SerNext == SerHide \/ SerUnhide \/ SerGetPrototypeOf

SpecSerializer == SerInit /\ [][SerNext]_vars

(***************************************************************************)
(* The engine specification: two instances of one engine class are         *)
(* constructed, then the same call is made on both, call after call.       *)
(***************************************************************************)
RngInit ==
    /\ type \in {"Xorshift32", "Xorshift128Plus"}
    /\ \E p \in SeedPairs(type) :
          /\ seedA = p[1]
          /\ seedB = p[2]
          /\ genA = New(type, p[1])
          /\ genB = New(type, p[2])
    /\ call = NoCall
    /\ outA = "none"
    /\ outB = "none"
    /\ draws = 0
    /\ VecIdle
    /\ NoiseIdle
    /\ RangeIdle
    /\ FacadeIdle
    /\ RotIdle
    /\ DualIdle
    /\ RegIdle
    /\ SerIdle

\* one call c on instance A and then on instance B
RngCall(c) ==
    /\ draws < MaxDraws
    /\ \E ra, rb \in 0..MaxAmbient :
          \E a \in {Draw(genA, c, ra)}, b \in {Draw(genB, c, rb)} :
             /\ genA' = a.gen
             /\ outA' = a.value
             /\ genB' = b.gen
             /\ outB' = b.value
    /\ call' = c
    /\ draws' = draws + 1
    /\ UNCHANGED <<type, seedA, seedB>>
    /\ UNCHANGED vecVars
    /\ UNCHANGED rangeVars
    /\ UNCHANGED facadeVars
    /\ UNCHANGED rotVars
    /\ UNCHANGED dualVars
    /\ UNCHANGED regVars
    /\ UNCHANGED serVars
    /\ UNCHANGED noiseVars

RngNextCall == RngCall([range |-> IntRangeMinMax(0, 0), op |-> "next"])
RngIntCall == \E r \in IntRanges : RngCall([range |-> r, op |-> "int"])
RngDecimalCall == \E r \in DecimalRanges : RngCall([range |-> r, op |-> "decimal"])
\* bigint(range), a method of Xorshift128Plus only, on instance A and then on
\* instance B
RngBigintCall ==
    /\ type = "Xorshift128Plus"
    /\ draws < MaxDraws
    /\ \E r \in BigIntRanges :
          /\ \E a \in {Xorshift128PlusBigint(genA, r)}, b \in {Xorshift128PlusBigint(genB, r)} :
                /\ genA' = a.gen
                /\ outA' = a.value
                /\ genB' = b.gen
                /\ outB' = b.value
          /\ call' = [range |-> r, op |-> "bigint"]
    /\ draws' = draws + 1
    /\ UNCHANGED <<type, seedA, seedB>>
    /\ UNCHANGED vecVars
    /\ UNCHANGED rangeVars
    /\ UNCHANGED facadeVars
    /\ UNCHANGED rotVars
    /\ UNCHANGED dualVars
    /\ UNCHANGED regVars
    /\ UNCHANGED serVars
    /\ UNCHANGED noiseVars

RngNext == RngNextCall \/ RngIntCall \/ RngDecimalCall \/ RngBigintCall

Spec == RngInit /\ [][RngNext]_vars

SpecVec == VecInit /\ [][VecNext]_vars

\* inputs of noise3: the doubles n and n / 2 ** scale for an integer n below 2 ** 31
\* in size
DoubleOfInt(n) == Double(n < 0, ToInt32(Abs(n)), 0)
DoubleOver(n, scale) == Double(n < 0, ToInt32(Abs(n)), scale)
\* 0.1, Number.MAX_VALUE and Number.MIN_VALUE
Tenth ==
    Double(FALSE, {0, 2, 3, 6, 7, 10, 11, 14, 15, 18, 19, 22, 23, 26, 27, 30, 31, 34, 35,
                   38, 39, 42, 43, 46, 47, 50, 51}, 55)
\* (Number.MAX_VALUE is (2 ** 53 - 1) * 2 ** 971, Number.MIN_VALUE is 2 ** -1074)
DoubleMaxValue == Double(FALSE, 0..(SignificandBits - 1), SignificandBits - MaxExponent)
DoubleMinValue == Double(FALSE, {0}, -MinExponent)

\* (0, 0, 0), (1, -2, 3), (-300, 41, 7), (4194304, -1000000000, 2000000000),
\* (2147483647, 0.5, -0.75), (0.1, Number.MIN_VALUE, Number.MAX_VALUE) and
\* (NaN, Infinity, -Infinity)
Points ==
    {<<DoubleOfInt(0), DoubleOfInt(0), DoubleOfInt(0)>>,
     <<DoubleOfInt(1), DoubleOfInt(-2), DoubleOfInt(3)>>,
     <<DoubleOfInt(-300), DoubleOfInt(41), DoubleOfInt(7)>>,
     <<DoubleOfInt(4194304), DoubleOfInt(-1000000000), DoubleOfInt(2000000000)>>,
     <<DoubleOfInt(2147483647), DoubleOver(1, 1), DoubleOver(-3, 2)>>,
     <<Tenth, DoubleMinValue, DoubleMaxValue>>,
     <<DoubleNaN, DoubleInfinity(FALSE), DoubleInfinity(TRUE)>>}
\* 1, 2, 0.5, 4194305, 0.1 and -1
Frequencies ==
    {DoubleOfInt(1), DoubleOfInt(2), DoubleOver(1, 1), DoubleOfInt(4194305), Tenth,
     DoubleOfInt(-1)}
Amplitudes == {1, 3}

NoiseInputs ==
    {[frequency |-> f, amplitude |-> amp, point |-> p] :
        f \in Frequencies, amp \in Amplitudes, p \in Points}

(***************************************************************************)
(* The noise specification: an engine is constructed (instance A), makes   *)
(* some draws, a PerlinNoise is built from it and noise3 is called on it.  *)
(***************************************************************************)
NoiseInit ==
    /\ type \in {"Xorshift32", "Xorshift128Plus"}
    /\ seedA \in Seeds(type)
    /\ genA = New(type, seedA)
    /\ seedB = seedA
    /\ genB = New(type, seedB)
    /\ call = NoCall
    /\ outA = "none"
    /\ outB = "none"
    /\ draws = 0
    /\ VecIdle
    /\ NoiseIdle
    /\ RangeIdle
    /\ FacadeIdle
    /\ RotIdle
    /\ DualIdle
    /\ RegIdle
    /\ SerIdle

\* the engine is used before the noise is built from it
NoisePreDraw ==
    /\ ~built
    /\ draws < MaxPreDraws
    /\ \E a \in {Draw(genA, [range |-> IntRangeMinMax(0, 0), op |-> "next"], 0)} :
          /\ genA' = a.gen
          /\ outA' = a.value
    /\ call' = [range |-> IntRangeMinMax(0, 0), op |-> "next"]
    /\ draws' = draws + 1
    /\ UNCHANGED <<type, seedA, seedB, genB, outB>>
    /\ UNCHANGED vecVars
    /\ UNCHANGED rangeVars
    /\ UNCHANGED facadeVars
    /\ UNCHANGED rotVars
    /\ UNCHANGED dualVars
    /\ UNCHANGED regVars
    /\ UNCHANGED serVars
    /\ UNCHANGED noiseVars

\* new PerlinNoise(generator) with instance A
NoiseConstruct ==
    /\ ~built
    /\ \E n \in {PerlinNoiseNew(genA)} :
          /\ genA' = n.gen
          /\ permutation' = n.permutation
          /\ offset' = n.offset
    /\ built' = TRUE
    /\ UNCHANGED <<type, seedA, seedB, genB, call, outA, outB, draws>>
    /\ UNCHANGED <<permutationB, offsetB>>
    /\ UNCHANGED <<query, noiseA, noiseB, pointA, firstQuery, firstNoise, queries, lookups>>
    /\ UNCHANGED pairVars
    /\ UNCHANGED vecVars
    /\ UNCHANGED rangeVars
    /\ UNCHANGED facadeVars
    /\ UNCHANGED rotVars
    /\ UNCHANGED dualVars
    /\ UNCHANGED regVars
    /\ UNCHANGED serVars

\* noise3(point, {frequency, amplitude}) on the noise of A, with a point object of
\* its own
NoiseQueryA(q) ==
    /\ built
    /\ queries < MaxQueries
    /\ \E a \in {PerlinNoiseNoise3([permutation |-> permutation, offset |-> offset],
                                   q.point,
                                   [frequency |-> q.frequency, amplitude |-> q.amplitude])} :
          /\ query' = q
          /\ noiseA' = a.value
          /\ pointA' = a.v
          /\ lookups' = a.lookups
          /\ permutation' = a.noise.permutation
          /\ offset' = a.noise.offset
    /\ queries' = queries + 1
    /\ UNCHANGED <<built, permutationB, offsetB, noiseB, firstQuery, firstNoise>>
    /\ UNCHANGED pairVars
    /\ UNCHANGED rngVars
    /\ UNCHANGED vecVars
    /\ UNCHANGED rangeVars
    /\ UNCHANGED facadeVars
    /\ UNCHANGED rotVars
    /\ UNCHANGED dualVars
    /\ UNCHANGED regVars
    /\ UNCHANGED serVars

NoiseQuery == \E q \in NoiseInputs : NoiseQueryA(q)

NoiseNext == NoisePreDraw \/ NoiseConstruct \/ NoiseQuery

SpecNoise == NoiseInit /\ [][NoiseNext]_vars

(***************************************************************************)
(* Two noises used apart: two engines of one class are constructed, each   *)
(* makes some draws of its own, a PerlinNoise is built from each, and then *)
(* noise3 is called on either, in any order.                               *)
(***************************************************************************)
\* the seeds of the two engines: the same seed, or two seeds that differ
TwoNoisesSeeds(t) ==
    IF t = "Xorshift32"
    THEN {<<0, 0>>, <<12345, 12345>>, <<638954829, 638954829>>, <<0, 12345>>}
    ELSE {<<(<<Zero, Zero>>), (<<Zero, Zero>>)>>,
          <<(<<One, Zero>>), (<<One, Zero>>)>>,
          <<(<<BigInt(FALSE, {0, 1, 2}), BigInt(TRUE, {1})>>),
            (<<BigInt(FALSE, {0, 1, 2}), BigInt(TRUE, {1})>>)>>,
          <<(<<One, Zero>>), (<<BigInt(FALSE, {0, 1, 2}), BigInt(TRUE, {1})>>)>>}

\* (1, -2, 3) at frequency 1, (-300, 41, 7) at 0.5 and (2147483647, 0.5, -0.75) at
\* 4194305
TwoNoisesInputs ==
    {[frequency |-> DoubleOfInt(1), amplitude |-> 1,
      point |-> <<DoubleOfInt(1), DoubleOfInt(-2), DoubleOfInt(3)>>],
     [frequency |-> DoubleOver(1, 1), amplitude |-> 3,
      point |-> <<DoubleOfInt(-300), DoubleOfInt(41), DoubleOfInt(7)>>],
     [frequency |-> DoubleOfInt(4194305), amplitude |-> 1,
      point |-> <<DoubleOfInt(2147483647), DoubleOver(1, 1), DoubleOver(-3, 2)>>]}

TwoNoisesInit ==
    /\ type \in {"Xorshift32", "Xorshift128Plus"}
    /\ \E p \in TwoNoisesSeeds(type) :
          /\ seedA = p[1]
          /\ seedB = p[2]
          /\ genA = New(type, p[1])
          /\ genB = New(type, p[2])
    /\ call = NoCall
    /\ outA = "none"
    /\ outB = "none"
    /\ draws = 0
    /\ VecIdle
    /\ NoiseIdle
    /\ RangeIdle
    /\ FacadeIdle
    /\ RotIdle
    /\ DualIdle
    /\ RegIdle
    /\ SerIdle

\* one of the engines is used before the noise is built from it
TwoNoisesPreDraw ==
    \E who \in {"A", "B"} :
       /\ IF who = "A" THEN ~built /\ draws < MaxPairPreDraws
                        ELSE ~builtB /\ drawsB < MaxPairPreDraws
       /\ \E d \in {Draw(IF who = "A" THEN genA ELSE genB,
                          [range |-> IntRangeMinMax(0, 0), op |-> "next"], 0)} :
             IF who = "A"
             THEN /\ genA' = d.gen
                  /\ outA' = d.value
                  /\ call' = [range |-> IntRangeMinMax(0, 0), op |-> "next"]
                  /\ draws' = draws + 1
                  /\ UNCHANGED <<genB, outB, drawsB>>
             ELSE /\ genB' = d.gen
                  /\ outB' = d.value
                  /\ drawsB' = drawsB + 1
                  /\ UNCHANGED <<genA, outA, call, draws>>
       /\ UNCHANGED <<type, seedA, seedB>>
       /\ UNCHANGED <<built, permutation, offset, permutationB, offsetB>>
       /\ UNCHANGED <<query, noiseA, noiseB, pointA, firstQuery, firstNoise, queries, lookups>>
       /\ UNCHANGED <<scriptA, scriptB, builtB, queryB, queriesB, factoryB>>
       /\ UNCHANGED vecVars
       /\ UNCHANGED rangeVars
       /\ UNCHANGED facadeVars
       /\ UNCHANGED rotVars
       /\ UNCHANGED dualVars
       /\ UNCHANGED regVars
       /\ UNCHANGED serVars

\* new PerlinNoise(generator) with one of the engines
TwoNoisesConstruct ==
    \E who \in {"A", "B"} :
       /\ IF who = "A" THEN ~built ELSE ~builtB
       /\ \E n \in {PerlinNoiseNew(IF who = "A" THEN genA ELSE genB)} :
             IF who = "A"
             THEN /\ genA' = n.gen
                  /\ permutation' = n.permutation
                  /\ offset' = n.offset
                  /\ built' = TRUE
                  /\ UNCHANGED <<genB, permutationB, offsetB, builtB>>
             ELSE /\ genB' = n.gen
                  /\ permutationB' = n.permutation
                  /\ offsetB' = n.offset
                  /\ builtB' = TRUE
                  /\ UNCHANGED <<genA, permutation, offset, built>>
       /\ UNCHANGED <<type, seedA, seedB, call, outA, outB, draws>>
       /\ UNCHANGED <<query, noiseA, noiseB, pointA, firstQuery, firstNoise, queries, lookups>>
       /\ UNCHANGED <<drawsB, scriptA, scriptB, queryB, queriesB, factoryB>>
       /\ UNCHANGED vecVars
       /\ UNCHANGED rangeVars
       /\ UNCHANGED facadeVars
       /\ UNCHANGED rotVars
       /\ UNCHANGED dualVars
       /\ UNCHANGED regVars
       /\ UNCHANGED serVars

\* noise3(point, {frequency, amplitude}) on one of the noises, with a point object
\* of its own; the first query on the noise of A is kept
TwoNoisesQuery ==
    \E who \in {"A", "B"} :
       /\ built
       /\ builtB
       /\ IF who = "A" THEN queries < MaxRepeats ELSE queriesB < MaxQueries
       /\ \E q \in TwoNoisesInputs :
          \E r \in {PerlinNoiseNoise3(IF who = "A"
                                      THEN [permutation |-> permutation, offset |-> offset]
                                      ELSE [permutation |-> permutationB, offset |-> offsetB],
                                      q.point,
                                      [frequency |-> q.frequency,
                                       amplitude |-> q.amplitude])} :
             IF who = "A"
             THEN /\ query' = q
                  /\ noiseA' = r.value
                  /\ pointA' = r.v
                  /\ lookups' = r.lookups
                  /\ permutation' = r.noise.permutation
                  /\ offset' = r.noise.offset
                  /\ queries' = queries + 1
                  /\ firstQuery' = IF queries = 0 THEN q ELSE firstQuery
                  /\ firstNoise' = IF queries = 0 THEN r.value ELSE firstNoise
                  /\ UNCHANGED <<queryB, noiseB, permutationB, offsetB, queriesB>>
             ELSE /\ queryB' = q
                  /\ noiseB' = r.value
                  /\ permutationB' = r.noise.permutation
                  /\ offsetB' = r.noise.offset
                  /\ queriesB' = queriesB + 1
                  /\ UNCHANGED <<query, noiseA, pointA, lookups, permutation, offset,
                                 queries, firstQuery, firstNoise>>
       /\ UNCHANGED <<built, builtB, drawsB, scriptA, scriptB, factoryB>>
       /\ UNCHANGED rngVars
       /\ UNCHANGED vecVars
       /\ UNCHANGED rangeVars
       /\ UNCHANGED facadeVars
       /\ UNCHANGED rotVars
       /\ UNCHANGED dualVars
       /\ UNCHANGED regVars
       /\ UNCHANGED serVars

TwoNoisesNext == TwoNoisesPreDraw \/ TwoNoisesConstruct \/ TwoNoisesQuery

SpecTwoNoises == TwoNoisesInit /\ [][TwoNoisesNext]_vars

(***************************************************************************)
(* Two engines used apart: instance A is constructed with a seed, instance *)
(* B with a seed or by the static random() of the class, which takes the   *)
(* seed from Math.random; then calls are made on either, in any order and  *)
(* each with arguments of its own.  A script holds the calls an instance   *)
(* got since it was constructed, each with the value it returned.          *)
(***************************************************************************)
\* Math.random() yielding (u + 2 ** -21) / 2 ** 32, for an ambient value n read as
\* the unsigned 32-bit integer u (n itself from 0 on, n + 2 ** 32 below 0)
MathRandom(n) == Double(FALSE, Shl(ToInt32(n), 21) \cup {0}, SignificandBits)

\* Random.uInt32(): Math.floor(Math.random() * (2 ** 32)), as bit positions
RandomUInt32(n) ==
    The({Shl(floor.mag, -floor.scale) :
            floor \in {MathFloor(DoubleTimes(MathRandom(n), Double(FALSE, {32}, 0)))}})

\* Random.uBigInt64(): (BigInt(high) << 32n) | BigInt(low)
RandomUBigInt64(high, low) ==
    BigInt(FALSE, Shl(RandomUInt32(high), 32) \cup RandomUInt32(low))

\* Xorshift32.random(): new this(Random.uInt32()).  The seed is any of
\* 0 .. 2 ** 32 - 1 and is held as the integer it is, sign and bits; the
\* constructor stores it in w, where every use takes its ToInt32, the same 32
\* bits
Xorshift32Random(n) ==
    The({[seed |-> BigInt(FALSE, u), gen |-> [Xorshift32New(0) EXCEPT !.w = Int32(u)]] :
            u \in {RandomUInt32(n)}})

\* Xorshift128Plus.random(): new this(Random.uBigInt64(), Random.uBigInt64()); n
\* holds the ambient values of the four reads of Math.random, in order
Xorshift128PlusRandom(n) ==
    The({[seed |-> <<seed0, seed1>>, gen |-> Xorshift128PlusNew(seed0, seed1)] :
            seed0 \in {RandomUBigInt64(n[1], n[2])},
            seed1 \in {RandomUBigInt64(n[3], n[4])}})

\* the values Math.random yields to random(): those of the ambient values, and for
\* Xorshift32 the largest one, (2 ** 32 - 1 + 2 ** -21) / 2 ** 32, as well
TwoEnginesAmbient(t) == IF t = "Xorshift32" THEN (-1)..MaxAmbient ELSE 0..MaxAmbient

\* a seed as the integer it is, comparable with the seed random() draws: a
\* Xorshift32 seed of the model (none is negative) as sign and bits
TwoEnginesSeed(t, seed) == IF t = "Xorshift32" THEN BigInt(FALSE, ToInt32(seed)) ELSE seed

\* the seeds of the two engines: the same seed, or two seeds that differ
TwoEnginesSeeds(t) ==
    IF t = "Xorshift32"
    THEN {<<0, 0>>, <<1, 1>>, <<12345, 12345>>, <<0, 12345>>}
    ELSE {<<(<<One, Zero>>), (<<One, Zero>>)>>,
          <<(<<Zero, One>>), (<<One, Zero>>)>>}

\* 0..9 and 0..2 ** 31 - 1
TwoEnginesIntRanges == {IntRangeMinMax(0, 9), IntRangeMinMax(0, 2147483647)}

\* 0n..9n
TwoEnginesBigIntRanges == {BigIntRangeMinMax(BigInt(FALSE, {}), BigInt(FALSE, {0, 3}))}

TwoEnginesInit ==
    /\ type \in {"Xorshift32", "Xorshift128Plus"}
    /\ \E p \in TwoEnginesSeeds(type) :
          /\ seedA = TwoEnginesSeed(type, p[1])
          /\ seedB = TwoEnginesSeed(type, p[2])
          /\ genA = New(type, p[1])
          /\ genB = New(type, p[2])
    /\ call = NoCall
    /\ outA = "none"
    /\ outB = "none"
    /\ draws = 0
    /\ VecIdle
    /\ NoiseIdle
    /\ RangeIdle
    /\ FacadeIdle
    /\ RotIdle
    /\ DualIdle
    /\ RegIdle
    /\ SerIdle

\* the static random() of the class: instance B is the engine it returns
TwoEnginesRandom ==
    /\ drawsB = 0
    /\ ~factoryB
    /\ \E n \in [1..4 -> TwoEnginesAmbient(type)] :
       \E b \in {IF type = "Xorshift32" THEN Xorshift32Random(n[1])
                 ELSE Xorshift128PlusRandom(n)} :
          /\ type = "Xorshift32" => \A i \in 2..4 : n[i] = 0
          /\ seedB' = b.seed
          /\ genB' = b.gen
    /\ factoryB' = TRUE
    /\ UNCHANGED <<type, seedA, genA, call, outA, outB, draws>>
    /\ UNCHANGED <<drawsB, scriptA, scriptB, builtB, queryB, queriesB>>
    /\ UNCHANGED <<built, permutation, offset, permutationB, offsetB>>
    /\ UNCHANGED <<query, noiseA, noiseB, pointA, firstQuery, firstNoise, queries, lookups>>
    /\ UNCHANGED vecVars
    /\ UNCHANGED rangeVars
    /\ UNCHANGED facadeVars
    /\ UNCHANGED rotVars
    /\ UNCHANGED dualVars
    /\ UNCHANGED regVars
    /\ UNCHANGED serVars

\* what a call that returned d leaves: the fields and the script of the instance it
\* was made on, the other instance as it was
TwoEnginesReturn(who, c, d) ==
    /\ IF who = "A"
       THEN /\ genA' = d.gen
            /\ outA' = d.value
            /\ call' = c
            /\ draws' = draws + 1
            /\ scriptA' = Append(scriptA, [value |-> d.value, range |-> c.range, op |-> c.op])
            /\ UNCHANGED <<genB, outB, drawsB, scriptB>>
       ELSE /\ genB' = d.gen
            /\ outB' = d.value
            /\ drawsB' = drawsB + 1
            /\ scriptB' = Append(scriptB, [value |-> d.value, range |-> c.range, op |-> c.op])
            /\ UNCHANGED <<genA, outA, call, draws, scriptA>>
    /\ UNCHANGED <<type, seedA, seedB>>
    /\ UNCHANGED <<builtB, queryB, queriesB, factoryB>>
    /\ UNCHANGED <<built, permutation, offset, permutationB, offsetB>>
    /\ UNCHANGED <<query, noiseA, noiseB, pointA, firstQuery, firstNoise, queries, lookups>>
    /\ UNCHANGED vecVars
    /\ UNCHANGED rangeVars
    /\ UNCHANGED facadeVars
    /\ UNCHANGED rotVars
    /\ UNCHANGED dualVars
    /\ UNCHANGED regVars
    /\ UNCHANGED serVars

\* one call c on one of the instances, while Math.random would yield r
TwoEnginesCall(c) ==
    \E who \in {"A", "B"} :
       /\ IF who = "A" THEN draws < MaxPairCalls ELSE drawsB < MaxPairCalls
       /\ \E r \in 0..MaxAmbient :
          \E d \in {Draw(IF who = "A" THEN genA ELSE genB, c, r)} :
             TwoEnginesReturn(who, c, d)

TwoEnginesIntCall ==
    \E r \in TwoEnginesIntRanges : TwoEnginesCall([range |-> r, op |-> "int"])
TwoEnginesDecimalCall ==
    \E r \in DecimalRanges : TwoEnginesCall([range |-> r, op |-> "decimal"])
\* bigint(range), a method of Xorshift128Plus only, on one of the instances
TwoEnginesBigintCall ==
    /\ type = "Xorshift128Plus"
    /\ \E who \in {"A", "B"} :
          /\ IF who = "A" THEN draws < MaxPairCalls ELSE drawsB < MaxPairCalls
          /\ \E r \in TwoEnginesBigIntRanges :
             \E d \in {Xorshift128PlusBigint(IF who = "A" THEN genA ELSE genB, r)} :
                TwoEnginesReturn(who, [range |-> r, op |-> "bigint"], d)

TwoEnginesNext ==
    \/ TwoEnginesRandom
    \/ TwoEnginesIntCall
    \/ TwoEnginesDecimalCall
    \/ TwoEnginesBigintCall

SpecTwoEngines == TwoEnginesInit /\ [][TwoEnginesNext]_vars

(***************************************************************************)
(* Properties of the engines.                                              *)
(***************************************************************************)

C2_IntInRange ==
    call.op = "int" =>
        /\ outA \in call.range.min .. call.range.max
        /\ outB \in call.range.min .. call.range.max

C2_Witness ==
    /\ call.op = "int"
    /\ call.range.min < call.range.max
    /\ draws >= 2
    /\ outA = call.range.max

\* C3: the two state words of a Xorshift128Plus are never both 0, whatever the seeds.
C3_NeverAllZero ==
    type = "Xorshift128Plus" =>
        /\ ~(genA.s0 = {} /\ genA.s1 = {})
        /\ ~(genB.s0 = {} /\ genB.s1 = {})

\* C4: Xorshift128Plus(0, 0) and Xorshift128Plus(0, 1) hold the same state after
\* construction and return the same value on every call of the same call sequence.
C4_ZeroSeedAsOne ==
    (type = "Xorshift128Plus" /\ seedA = <<Zero, Zero>> /\ seedB = <<Zero, One>>)
        => (genA = genB /\ outA = outB)

C4_Witness ==
    /\ type = "Xorshift128Plus"
    /\ seedA = <<Zero, Zero>>
    /\ seedB = <<Zero, One>>
    /\ draws >= 1
    /\ call.op = "int"
    /\ genA.s0 # {}

\* C5: both state words of a Xorshift128Plus lie in [0, 2^64) and the value next()
\* returns is the sum of the two state words reduced modulo 2^64.
C5_Wrapping64 ==
    type = "Xorshift128Plus" =>
        /\ genA.s0 \subseteq 0..63
        /\ genA.s1 \subseteq 0..63
        /\ call.op = "next" =>
              /\ outA = extract64(Add(genA.s0, genA.s1))
              /\ outA \subseteq 0..63

\* the value of the first step of the recurrence from the state the constructor seeds
FirstStepValue(t, seed) ==
    IF t = "Xorshift32"
    THEN Xorshift32Next(
             [type |-> "Xorshift32",
              w |-> ToInt32(seed), x |-> ToInt32(Xorshift32X),
              y |-> ToInt32(Xorshift32Y), z |-> ToInt32(Xorshift32Z)]).value
    ELSE Xorshift128PlusNext(Xorshift128PlusSeeded(seed[1], seed[2])).value

\* the value of the fifth step of the recurrence from the state the constructor seeds
FifthStepValue128(seed) ==
    LET g0 == Xorshift128PlusSeeded(seed[1], seed[2])
        g1 == Xorshift128PlusNext(g0).gen
        g2 == Xorshift128PlusNext(g1).gen
        g3 == Xorshift128PlusNext(g2).gen
        g4 == Xorshift128PlusNext(g3).gen
    IN Xorshift128PlusNext(g4).value

\* C6 (as stated): on both engines the first value a fresh instance returns is not
\* the first step of the recurrence applied to the seeded state.
C6_BothWarmUp ==
    (draws = 1 /\ call.op = "next") => outA # FirstStepValue(type, seedA)

\* C6 (amended): only Xorshift128Plus warms up.  Its constructor discards exactly 4
\* draws, so the first value it returns is the fifth step of the recurrence applied
\* to the seeded state; the first value a fresh Xorshift32 returns is the first step.
C6_WarmUpOnly128 ==
    (draws = 1 /\ call.op = "next") =>
        IF type = "Xorshift128Plus"
        THEN outA = FifthStepValue128(seedA)
        ELSE outA = FirstStepValue(type, seedA)

C6_Witness ==
    /\ draws = 1
    /\ call.op = "next"
    /\ type = "Xorshift128Plus"
    /\ outA = FifthStepValue128(seedA)
    /\ outA # FirstStepValue(type, seedA)

(***************************************************************************)
(* Properties of Vector3Builder.                                           *)
(***************************************************************************)

\* C7: after construction and after every call that returns without throwing, no
\* component of the vector is NaN.
C7_NeverNaN == ~thrown => (nonNaN(vec.x) /\ nonNaN(vec.y) /\ nonNaN(vec.z))

\* C8: a call with a NaN operand (a NaN scalar or a vector argument with a NaN
\* component) throws and leaves the components as they were.
C8_NaNOperandThrows == nanOperand => (thrown /\ vec = prev)

(***************************************************************************)
(* Properties of the PerlinNoise table.                                    *)
(***************************************************************************)

\* C9: after construction every value of 0..255 occurs exactly once among entries
\* 0..255 of the table.
C9_Permutation ==
    built =>
        \A v \in 0..(TableSize - 1) :
           Cardinality({i \in 1..TableSize : permutation[i] = v}) = 1

\* C10: after construction the table has 512 entries and entry i + 256 equals entry
\* i for every i in 0..255.
C10_Mirror ==
    built =>
        /\ Len(permutation) = 2 * TableSize
        /\ \A i \in 1..TableSize : permutation[i + TableSize] = permutation[i]

C10_Witness ==
    /\ built
    /\ type = "Xorshift32"
    /\ draws > 0
    /\ Len(permutation) = 2 * TableSize
    /\ permutation[1 + TableSize] = permutation[1]
    /\ \E i \in 1..TableSize : permutation[i] # permutation[1]

RangeKinds == {"FiniteRange", "IntRange"}
RangeBounds == {Fin(-2), Fin(0), Fin(3), Half(0), PInf, NaN}
ClampValues ==
    {Fin(-5), Fin(-2), Fin(1), Fin(3), Fin(7), Half(-3), Half(1), Half(2), Half(3),
     NInf, PInf, MaxValue, NaN}

MaxOnlyBounds == {Fin(-2), Fin(0), Fin(3), Half(-1), Half(0), MinValue, MaxValue, PInf, NaN}

RangeInit ==
    /\ RngIdle
    /\ VecIdle
    /\ NoiseIdle
    /\ FacadeIdle
    /\ RotIdle
    /\ DualIdle
    /\ RegIdle
    /\ SerIdle
    /\ \/ \E kind \in RangeKinds, min \in RangeBounds, max \in RangeBounds :
             LET r == IF kind = "IntRange" THEN IntRangeMinMaxOf(min, max)
                      ELSE FiniteRangeMinMax(min, max)
             IN ranged = [asked |-> <<min, max>>, made |-> r, kind |-> kind,
                          how |-> "minMax"]
       \/ \E max \in MaxOnlyBounds :
             ranged = [asked |-> <<max>>, made |-> FiniteRangeMaxOnly(max),
                       kind |-> "FiniteRange", how |-> "maxOnly"]
    /\ rangeOp = "none"
    /\ clampIn = "none"
    /\ clampOut = "none"
    /\ clamps = 0

\* range.clamp(value)
RangeClampCall ==
    /\ ~ranged.made.thrown
    /\ clamps < MaxClamps
    /\ \E value \in ClampValues :
          /\ clampIn' = value
          /\ clampOut' = IF ranged.kind = "IntRange" THEN IntRangeClamp(ranged.made, value)
                         ELSE RangeClamp(ranged.made, value)
    /\ rangeOp' = "clamp"
    /\ clamps' = clamps + 1
    /\ UNCHANGED ranged
    /\ UNCHANGED rngVars
    /\ UNCHANGED vecVars
    /\ UNCHANGED noiseVars
    /\ UNCHANGED facadeVars
    /\ UNCHANGED rotVars
    /\ UNCHANGED dualVars
    /\ UNCHANGED regVars
    /\ UNCHANGED serVars

\* range.within(value): what it returned, unless it threw
RangeWithinCall ==
    /\ ~ranged.made.thrown
    /\ clamps < MaxClamps
    /\ \E value \in ClampValues :
          /\ clampIn' = value
          /\ clampOut' = IF ranged.kind = "IntRange" THEN IntRangeWithin(ranged.made, value)
                         ELSE [thrown |-> FALSE, value |-> Within(ranged.made, value)]
    /\ rangeOp' = "within"
    /\ clamps' = clamps + 1
    /\ UNCHANGED ranged
    /\ UNCHANGED rngVars
    /\ UNCHANGED vecVars
    /\ UNCHANGED noiseVars
    /\ UNCHANGED facadeVars
    /\ UNCHANGED rotVars
    /\ UNCHANGED dualVars
    /\ UNCHANGED regVars
    /\ UNCHANGED serVars

RangeNext == RangeClampCall \/ RangeWithinCall
SpecRange == RangeInit /\ [][RangeNext]_vars

(***************************************************************************)
(* The Random specification: an engine is seeded, a Random is constructed  *)
(* over it, then sample, weightedChoice, shuffledClone, boxMuller, uuid,   *)
(* chance, sign, choice and the random rotations are called on it.         *)
(***************************************************************************)
Versions == {"scripts", "unnamed"}
Lists ==
    {<<>>, <<"a">>, <<"a", "b">>, <<"a", "b", "a">>, <<"a", "b", "c", "d">>}
SampleSets == {<<>>, <<"a">>, <<"a", "b", "c">>}
\* 0, 0.5, 1, 2, NaN
Chances == {Fin(0), Half(0), Fin(1), Fin(2), NaN}
Counts == {Fin(-1), Fin(0), Fin(1), Fin(3), Fin(4), Half(1), MinValue, NaN}
Entry(key, weight) == [weight |-> weight, key |-> key]
WeightMaps ==
    {<<Entry("a", Fin(1))>>,
     <<Entry("a", Fin(1)), Entry("b", Fin(3))>>,
     <<Entry("a", Fin(2)), Entry("b", Fin(1)), Entry("c", Fin(2))>>,
     <<Entry("a", MaxSafeInteger)>>,
     <<Entry("a", MaxSafeInteger), Entry("b", Fin(1))>>,
     <<Entry("a", Fin(0))>>,
     <<Entry("a", Fin(1)), Entry("b", Fin(-1))>>,
     <<Entry("a", Fin(2)), Entry("b", Half(0)), Entry("c", NaN)>>,
     <<Entry("a", NaN), Entry("b", Fin(1))>>,
     <<Entry("a", Fin(1)), Entry("b", AboveSafe)>>,
     <<Entry("a", PInf)>>}

\* seeds of a Xorshift32 whose first next() returns 0 and whose second next()
\* returns 2^32 - 1
RedrawSeeds32 == {1508531533, 1642592810}

RandomInit ==
    /\ type \in {"Xorshift32", "Xorshift128Plus"}
    /\ seedA \in Seeds(type) \cup (IF type = "Xorshift32" THEN RedrawSeeds32 ELSE {})
    /\ version \in Versions
    /\ genA = New(type, seedA)
    /\ seedB = 0
    /\ genB = "none"
    /\ call = NoCall /\ outA = "none" /\ outB = "none" /\ draws = 0
    /\ VecIdle
    /\ NoiseIdle
    /\ RangeIdle
    /\ RotIdle
    /\ DualIdle
    /\ RegIdle
    /\ SerIdle
    /\ rop = "none"
    /\ rin = "none"
    /\ rout = "none"
    /\ genBefore = "none"
    /\ rcalls = 0

\* new Random(engine)
RandomConstruct ==
    /\ rop = "none"
    /\ \E r \in {RandomNew(version, genA)} :
          /\ genA' = r.gen
          /\ built' = r.noise
          /\ permutation' = (IF r.noise THEN r.permutation ELSE permutation)
          /\ offset' = (IF r.noise THEN r.offset ELSE offset)
    /\ rop' = "new"
    /\ UNCHANGED <<type, seedA, seedB, genB, call, outA, outB, draws>>
    /\ UNCHANGED <<version, rin, rout, genBefore, rcalls>>
    /\ UNCHANGED vecVars
    /\ UNCHANGED <<permutationB, offsetB, query, noiseA, noiseB, pointA>>
    /\ UNCHANGED pairVars
    /\ UNCHANGED <<firstQuery, firstNoise, queries, lookups>>
    /\ UNCHANGED rangeVars
    /\ UNCHANGED rotVars
    /\ UNCHANGED dualVars
    /\ UNCHANGED regVars
    /\ UNCHANGED serVars

\* has the last call not returned (boxMuller on an engine that only yields 0)
Hung == rop = "boxMuller" /\ ~rout.returned

\* the call named name with the arguments in returned result
RandomCall(name, in, result) ==
    /\ rop # "none"
    /\ ~Hung
    /\ rcalls < MaxRandomCalls
    /\ rcalls' = rcalls + 1
    /\ rop' = name
    /\ rin' = in
    /\ \E r \in {result} :
          /\ rout' = [draws |-> r.draws, thrown |-> r.thrown,
                      value |-> IF r.thrown THEN "none" ELSE r.value,
                      input |-> r.input]
          /\ genA' = r.gen
    /\ genBefore' = genA
    /\ UNCHANGED <<type, seedA, seedB, genB, call, outA, outB, draws, version>>
    /\ UNCHANGED vecVars
    /\ UNCHANGED noiseVars
    /\ UNCHANGED rangeVars
    /\ UNCHANGED rotVars
    /\ UNCHANGED dualVars
    /\ UNCHANGED regVars
    /\ UNCHANGED serVars

RandomSampleCall ==
    \E set \in SampleSets, count \in Counts :
       RandomCall("sample", [set |-> set, count |-> count],
                  IF version = "scripts" THEN RandomSample(genA, set, count)
                  ELSE RandomSamplePart003(genA, set, count))

RandomWeightedChoiceCall ==
    \E map \in WeightMaps :
       RandomCall("weightedChoice", [map |-> map], RandomWeightedChoice(genA, map))

RandomShuffledCloneCall ==
    \E list \in Lists :
       RandomCall("shuffledClone", [list |-> list], RandomShuffledClone(genA, list))

RandomUuidCall == RandomCall("uuid", "none", RandomUuid(genA))
RandomChanceCall ==
    \E chance \in Chances : RandomCall("chance", [chance |-> chance], RandomChance(genA, chance))
RandomSignCall == RandomCall("sign", "none", RandomSign(genA))
RandomChoiceCall ==
    \E list \in Lists : RandomCall("choice", [list |-> list], RandomChoice(genA, list))
\* rotation2() and rotation3() of the copy under scripts, rotation() of the older one
RandomRotation2Call ==
    /\ version = "scripts"
    /\ RandomCall("rotation2", "none", RandomRotation2(genA))
RandomRotation3Call ==
    /\ version = "scripts"
    /\ RandomCall("rotation3", "none", RandomRotation3(genA))
RandomRotationCall ==
    /\ version = "unnamed"
    /\ RandomCall("rotation", "none", RandomRotation(genA))

\* boxMuller()
RandomBoxMullerCall ==
    /\ rop # "none"
    /\ ~Hung
    /\ rcalls < MaxRandomCalls
    /\ rcalls' = rcalls + 1
    /\ rop' = "boxMuller"
    /\ rin' = "none"
    /\ \E r \in {RandomBoxMuller(genA)} :
          /\ rout' = r
          /\ genA' = r.gen
    /\ genBefore' = genA
    /\ UNCHANGED <<type, seedA, seedB, genB, call, outA, outB, draws, version>>
    /\ UNCHANGED vecVars
    /\ UNCHANGED noiseVars
    /\ UNCHANGED rangeVars
    /\ UNCHANGED rotVars
    /\ UNCHANGED dualVars
    /\ UNCHANGED regVars
    /\ UNCHANGED serVars

RandomNext ==
    \/ RandomConstruct
    \/ RandomSampleCall \/ RandomWeightedChoiceCall \/ RandomShuffledCloneCall
    \/ RandomBoxMullerCall
    \/ RandomUuidCall \/ RandomChanceCall \/ RandomSignCall \/ RandomChoiceCall
    \/ RandomRotation2Call \/ RandomRotation3Call \/ RandomRotationCall
SpecRandom == RandomInit /\ [][RandomNext]_vars

(***************************************************************************)
(* The rotation specification: a source rotation is constructed; its       *)
(* ObjectCoordsSystem is derived, forward() is called on the system, and   *)
(* the source and the rotation forward() returned are written to, through  *)
(* the setters and through operate, add, subtract, scale, divide, invert   *)
(* and clamp.                                                              *)
(***************************************************************************)
NewRotations ==
    {<<Fin(0), Fin(0), Fin(0)>>, <<Fin(90), Fin(-45), Fin(10)>>, <<PInf, Fin(0), Fin(-180)>>}
RotationValues == {Fin(90), Fin(-1), NaN}

RotInit ==
    /\ RngIdle
    /\ VecIdle
    /\ NoiseIdle
    /\ RangeIdle
    /\ FacadeIdle
    /\ DualIdle
    /\ RegIdle
    /\ SerIdle
    /\ \E a \in NewRotations :
          LET n == TripleAxisRotationBuilderNew(a[1], a[2], a[3])
              zero == Rotation(Fin(0), Fin(0), Fin(0))
          IN /\ ~n.thrown
             /\ heap = <<n.rotation, zero, zero>>
    /\ system = 0
    /\ forwarded = 0
    /\ snapshot = "none"
    /\ rotOp = "new"
    /\ rotThrown = FALSE
    /\ touched = FALSE
    /\ rotSteps = 0

RotFrame ==
    /\ rotSteps < MaxRotSteps
    /\ rotSteps' = rotSteps + 1
    /\ UNCHANGED rngVars
    /\ UNCHANGED vecVars
    /\ UNCHANGED noiseVars
    /\ UNCHANGED rangeVars
    /\ UNCHANGED facadeVars
    /\ UNCHANGED dualVars
    /\ UNCHANGED regVars
    /\ UNCHANGED serVars

\* a setter or another mutator, returning r, called on the rotation at index
\* ref; the model takes the calls whose result it holds
RotSet(name, ref, r) ==
    /\ RotFrame
    /\ \A c \in {r.rotation.yaw, r.rotation.pitch, r.rotation.roll} :
          c.k # "unknown" /\ (c.k = "fin" => Abs(c.v) <= MaxAngle)
    /\ heap' = [heap EXCEPT ![ref] = r.rotation]
    /\ rotThrown' = r.thrown
    /\ rotOp' = name
    /\ touched' = (touched \/ (ref = forwarded /\ ~r.thrown))
    /\ UNCHANGED <<system, forwarded, snapshot>>

\* the references a caller holds: the source and what forward() returned last
Held == {1} \cup (IF forwarded = 0 THEN {} ELSE {forwarded})

RotSetYaw ==
    \E ref \in Held, value \in RotationValues :
       RotSet("set yaw", ref, TripleAxisRotationBuilderSetYaw(heap[ref], value))
RotSetPitch ==
    \E ref \in Held, value \in RotationValues :
       RotSet("set pitch", ref, TripleAxisRotationBuilderSetPitch(heap[ref], value))
RotSetRoll ==
    \E ref \in Held, value \in RotationValues :
       RotSet("set roll", ref, TripleAxisRotationBuilderSetRoll(heap[ref], value))

RotSetX ==
    \E ref \in Held, value \in RotationValues :
       RotSet("set x", ref, TripleAxisRotationBuilderSetX(heap[ref], value))
RotSetY ==
    \E ref \in Held, value \in RotationValues :
       RotSet("set y", ref, TripleAxisRotationBuilderSetY(heap[ref], value))

\* what is passed where a rotation is expected: a rotation the caller holds or a
\* plain object with x and y
RotArguments == {heap[ref] : ref \in Held} \cup {Vector2Object(Fin(5), Fin(30))}
\* the scalars passed to scale and divide
RotScalars == {Fin(2), Fin(0), NaN}

\* operate(callbackFn), operate(other, callbackFn), and operate(other) without one
RotOperate ==
    \E ref \in Held :
       \/ \E a \in UnaryCallbacks :
             RotSet("operate", ref,
                    TripleAxisRotationBuilderOperate(heap[ref], a, "undefined"))
       \/ \E o \in RotArguments, b \in {"plus", "undefined"} :
             RotSet("operate", ref, TripleAxisRotationBuilderOperate(heap[ref], o, b))
RotAdd ==
    \E ref \in Held, o \in RotArguments :
       RotSet("add", ref, TripleAxisRotationBuilderAdd(heap[ref], o))
RotSubtract ==
    \E ref \in Held, o \in RotArguments :
       \E r \in TripleAxisRotationBuilderSubtract(heap[ref], o) : RotSet("subtract", ref, r)
RotScale ==
    \E ref \in Held, scalar \in RotScalars :
       RotSet("scale", ref, TripleAxisRotationBuilderScale(heap[ref], scalar))
RotDivide ==
    \E ref \in Held, scalar \in RotScalars :
       RotSet("divide", ref, TripleAxisRotationBuilderDivide(heap[ref], scalar))
RotInvert ==
    \E ref \in Held :
       \E r \in TripleAxisRotationBuilderInvert(heap[ref]) : RotSet("invert", ref, r)
RotClamp ==
    \E ref \in Held, min \in RotArguments, max \in RotArguments :
       RotSet("clamp", ref, TripleAxisRotationBuilderClamp(heap[ref], min, max))

\* source.getObjectCoordsSystem(); the system derived before is dropped, unless
\* the call throws and the caller is left with it
RotGetObjectCoordsSystem ==
    /\ RotFrame
    /\ \E s \in {TripleAxisRotationBuilderGetObjectCoordsSystem(heap, 1, Held)} :
          /\ heap' = s.heap
          /\ system' = IF s.thrown THEN system ELSE s.rotation
          /\ snapshot' = IF s.thrown THEN snapshot ELSE heap[1]
          /\ rotThrown' = s.thrown
          /\ touched' = IF s.thrown THEN touched ELSE FALSE
    /\ rotOp' = "getObjectCoordsSystem"
    /\ UNCHANGED forwarded

\* system.forward(); the rotation returned before is dropped
RotForward ==
    /\ system # 0
    /\ RotFrame
    /\ \E f \in {ObjectCoordsSystemForward(heap, system, {1, system})} :
          /\ heap' = f.heap
          /\ forwarded' = IF f.thrown THEN forwarded ELSE f.ref
          /\ rotThrown' = f.thrown
    /\ rotOp' = "forward"
    /\ UNCHANGED <<system, snapshot, touched>>

RotNext ==
    \/ RotSetYaw \/ RotSetPitch \/ RotSetRoll \/ RotSetX \/ RotSetY
    \/ RotOperate \/ RotAdd \/ RotSubtract \/ RotScale \/ RotDivide
    \/ RotInvert \/ RotClamp
    \/ RotGetObjectCoordsSystem \/ RotForward
SpecRot == RotInit /\ [][RotNext]_vars

\* are the components integers the model holds exactly
IntegerVector(v) == v.x.k = "fin" /\ v.y.k = "fin" /\ v.z.k = "fin"

\* are the components finite numbers
FiniteVector(v) == v.x.k \in {"fin", "max"} /\ v.y.k \in {"fin", "max"} /\ v.z.k \in {"fin", "max"}

\* C12 as stated: for all v and w with finite components, v.add(w).subtract(w)
\* leaves v with its original components, and neither call modifies w.
C12_RoundTripAllFinite ==
    /\ vop \in {"add", "subtract"} => argAfter = arg
    /\ (vop = "subtract" /\ ~thrown /\ lastAdd.made) =>
          ((lastAdd.other = arg /\ FiniteVector(arg) /\ FiniteVector(lastAdd.before))
              => vec = lastAdd.before)

\* C12, amended: for all v and w whose components are integers and whose sums are
\* computed exactly, v.add(w).subtract(w) leaves v with its original components,
\* and neither add nor subtract modifies w, whatever it holds.
C12_RoundTripIntegers ==
    /\ vop \in {"add", "subtract"} => argAfter = arg
    /\ (vop = "subtract" /\ ~thrown /\ lastAdd.made) =>
          ((lastAdd.other = arg /\ IntegerVector(arg) /\ IntegerVector(lastAdd.before)
            /\ IntegerVector(prev))
              => vec = lastAdd.before)

C12_Witness ==
    /\ vop = "subtract" /\ ~thrown /\ lastAdd.made
    /\ lastAdd.other = arg
    /\ arg = Vec(Fin(0), Fin(1), Fin(1))
    /\ argAfter = arg
    /\ lastAdd.before = Vec(Fin(1), Fin(0), Fin(0))
    /\ prev = Vec(Fin(1), Fin(1), Fin(1))
    /\ vec = lastAdd.before

\* C13, as stated: for all vectors a and b (no component NaN), a.cross(b) returns
\* a vector, b.cross(a).invert() returns one with equal components, and a and b
\* are as they were.
C13_AllVectors ==
    (vop = "cross" /\ crossed.made /\ ~nanOperand) =>
        /\ ~thrown
        /\ ~crossed.ab.thrown
        /\ ~crossed.ba.thrown
        /\ crossed.ab.value = crossed.ba.value
        /\ vec = prev
        /\ argAfter = arg

\* C13, amended: a.cross(b) throws when a component of b, or one of the three
\* differences of products, is NaN (Infinity * 0, Infinity - Infinity), and then
\* b.cross(a) throws too; it returns when all components of a and b are finite
\* and their products do not overflow; when it returns, b.cross(a).invert()
\* returns a vector with equal components; a and b are as they were either way.
C13_CrossAntiCommutative ==
    (vop = "cross" /\ crossed.made) =>
        /\ crossed.ab = crossed.ba
        /\ vec = prev
        /\ argAfter = arg
        /\ thrown = crossed.ab.thrown
        /\ (\A c \in {prev.x, prev.y, prev.z, arg.x, arg.y, arg.z} : c.k = "fin") => ~thrown
        /\ nanOperand => thrown

C13_Witness ==
    /\ vop = "cross" /\ crossed.made
    /\ vec = Vec(Fin(1), Fin(0), Fin(0))
    /\ arg = Vec(Fin(0), Fin(1), Fin(1))
    /\ ~crossed.ab.thrown
    /\ crossed.ab.value = Vec(Fin(0), Fin(-1), Fin(1))
    /\ crossed.ba = crossed.ab

\* is the length of v, as length() computes it, 0
ZeroLength(v) ==
    LET previous == Vector3BuilderLength(v)
    IN ~previous.thrown /\ previous.value = Fin(0)

\* C14: length(target) with a non-NaN target, and normalize(), on a vector whose
\* length is 0 return without throwing and leave its components unchanged, none
\* of them NaN.
C14_ZeroLengthNoOp ==
    (vop \in {"length", "normalize"} /\ ~nanOperand /\ ZeroLength(prev)) =>
        /\ ~thrown
        /\ vec = prev
        /\ isVector3(vec)

C14_Witness ==
    /\ vop = "normalize"
    /\ prev = Vec(Fin(0), Fin(0), Fin(0))
    /\ ZeroLength(prev)
    /\ ~thrown
    /\ vec = Vec(Fin(0), Fin(0), Fin(0))

\* C20: a FiniteRange or IntRange that minMax returned has min <= max, minMax throws
\* when max < min, and clamp(v) lies in [min, max], is max when v > max, is min
\* when v < min and is an integer on an IntRange, for every value v.
C20_ClampSaturates ==
    ranged.how = "minMax" =>
       /\ NumLt(ranged.asked[2], ranged.asked[1]) => ranged.made.thrown
       /\ ~ranged.made.thrown => ~NumLt(ranged.made.max, ranged.made.min)
       /\ rangeOp = "clamp" =>
             /\ NumLe(ranged.made.min, clampOut)
             /\ NumLe(clampOut, ranged.made.max)
             /\ NumLt(ranged.made.max, clampIn) => clampOut = ranged.made.max
             /\ NumLt(clampIn, ranged.made.min) => clampOut = ranged.made.min
             /\ ranged.kind = "IntRange" => clampOut.k = "fin"

\* C15: sample(set, count) throws when count < 0 or count > set.size, without
\* asking the engine for a draw; otherwise it returns a set of exactly count
\* elements, all members of the input set, and leaves the input set unchanged.
C15_SampleCountChecked ==
    rop = "sample" =>
        IF NumLt(rin.count, Fin(0)) \/ NumLt(Fin(Len(rin.set)), rin.count)
        THEN /\ rout.thrown
             /\ rout.draws = <<>>
             /\ genA = genBefore
        ELSE /\ ~rout.thrown
             /\ Fin(Len(rout.value)) = rin.count
             /\ Elements(rout.value) \subseteq Elements(rin.set)
             /\ rout.input = rin.set

\* is some weight of the map not a positive safe integer
BadWeight(map) ==
    \E i \in 1..Len(map) :
       ~(NumberIsSafeInteger(map[i].weight) /\ NumLt(Fin(0), map[i].weight))

\* C16: weightedChoice throws when a weight of the map is not a positive safe
\* integer, and it has then asked the engine for no draw: the engine is as before.
C16_BadWeightThrowsBeforeDraw ==
    (rop = "weightedChoice" /\ BadWeight(rin.map)) =>
        /\ rout.thrown
        /\ rout.draws = <<>>
        /\ genA = genBefore

C16_Witness ==
    /\ rop = "weightedChoice"
    /\ rin.map = <<Entry("a", Fin(2)), Entry("b", Half(0)), Entry("c", NaN)>>
    /\ BadWeight(rin.map)
    /\ rcalls = 2
    /\ rout.thrown
    /\ genA = genBefore

\* the first key of the map whose cumulative weight is >= r (r as bit positions)
RECURSIVE FirstKeyReaching(_, _, _)
FirstKeyReaching(map, i, r) ==
    IF i >= Len(map) \/ Geq(SafeBits(map[i].weight), r) THEN map[i].key
    ELSE FirstKeyReaching(map, i + 1, Sub(r, SafeBits(map[i].weight)))

\* C17: on a non-empty map of positive safe-integer weights weightedChoice does
\* not throw, asks the engine for exactly one draw r over [1, sum of weights],
\* and returns the first key whose cumulative weight is >= r, a key of the map.
C17_WeightedChoiceOneDraw ==
    (rop = "weightedChoice" /\ Len(rin.map) > 0 /\ ~BadWeight(rin.map)) =>
        /\ ~rout.thrown
        /\ Len(rout.draws) = 1
        /\ rout.draws[1].range =
              IntRangeMinMax({0}, SafeBits(WeightedChoiceSum(rin.map, 1, Fin(0)).sum))
        /\ Geq(rout.draws[1].value, {0})
        /\ Geq(rout.draws[1].range.max, rout.draws[1].value)
        /\ rout.value = FirstKeyReaching(rin.map, 1, rout.draws[1].value)
        /\ \E i \in 1..Len(rin.map) : rin.map[i].key = rout.value

\* how many times e occurs in the sequence
Occurrences(seq, e) == Cardinality({i \in 1..Len(seq) : seq[i] = e})

\* C18: shuffledClone(list) returns a permutation of list and leaves list
\* unchanged; for length >= 2 it asks for one draw per index i from length - 1
\* down to 0, over [0, i], and for shorter lists for none.
C18_ShuffledClonePermutation ==
    rop = "shuffledClone" =>
        /\ ~rout.thrown
        /\ Len(rout.value) = Len(rin.list)
        /\ \A e \in Elements(rin.list) \cup Elements(rout.value) :
              Occurrences(rout.value, e) = Occurrences(rin.list, e)
        /\ rout.input = rin.list
        /\ IF Len(rin.list) >= 2
           THEN /\ Len(rout.draws) = Len(rin.list)
                /\ \A k \in 1..Len(rout.draws) :
                      /\ rout.draws[k].range = IntRangeMinMax(0, Len(rin.list) - k)
                      /\ rout.draws[k].value \in 0..(Len(rin.list) - k)
           ELSE rout.draws = <<>>

C18_Witness ==
    /\ rop = "shuffledClone"
    /\ rin.list = <<"a", "b", "c", "d">>
    /\ rout.value # rin.list
    /\ rout.value[4] = "a"
    /\ Len(rout.draws) = 4
    /\ rout.input = rin.list

\* C19: the rotation an ObjectCoordsSystem holds keeps the yaw, pitch and roll
\* the source had when the system was derived, whatever is written afterwards to
\* the source or to a rotation forward() returned; forward() returns those
\* values in an object that is neither the source nor the one the system holds.
C19_SystemSnapshot ==
    system # 0 =>
        /\ heap[system] = snapshot
        /\ rotOp = "forward" =>
              /\ ~rotThrown
              /\ heap[forwarded] = snapshot
              /\ forwarded \notin {1, system}

C19_Witness ==
    /\ system # 0
    /\ rotOp = "forward"
    /\ touched
    /\ heap[1] # snapshot
    /\ heap[forwarded] = snapshot
    /\ snapshot = Rotation(Fin(90), Fin(-45), Fin(10))

\* C21: each Xorshift32 draw from state (x, y, z, w) computes t = x ^ (x << 11) in
\* 32-bit arithmetic and moves the state to (y, z, w, w') with
\* w' = (w ^ (w >>> 19)) ^ (t ^ (t >>> 8)) a signed 32-bit word; next() returns
\* w' + 2^31, a value of 0 .. 2^32 - 1, for every seed and after any number of draws.
C21_Step ==
    (type = "Xorshift32" /\ draws' = draws + 1) =>
        LET t == Xor(genA.x, Shl(genA.x, 11) \cap (0..31))
            w1 == Xor(Xor(genA.w, Shr(genA.w, 19)), Xor(t, Shr(t, 8)))
        IN /\ w1 \subseteq 0..31
           /\ genA' = [type |-> "Xorshift32", w |-> w1, x |-> genA.y,
                       y |-> genA.z, z |-> genA.w]
           /\ call'.op = "next" =>
                 /\ outA' = (IF 31 \in w1 THEN w1 \ {31} ELSE w1 \cup {31})
                 /\ outA' \subseteq 0..31

C21_Xorshift32Draw == [][C21_Step]_vars

C21_Witness ==
    /\ type = "Xorshift32"
    /\ seedA < 0
    /\ draws >= 2
    /\ call.op = "next"
    /\ 31 \notin outA
    /\ genA.z # ToInt32(Xorshift32Z)


\* C22: each of the three offsets a PerlinNoise is constructed with is at least
\* 0 and strictly less than 256, whatever the engine draws.  The offset of an
\* axis is draw / (2 ** 31 - 1) * 256, which is below 256 exactly when the draw is
\* below 2 ** 31 - 1.
C22_OffsetBelow256 ==
    built => \A i \in 1..3 : offset[i] >= 0 /\ offset[i] < OffsetDrawMax


\* C23: the point object passed to noise3 has the same x, y and z after the call
\* as before it (so that a second call with the same object returns the same
\* value).
C23_PointUnchanged ==
    queries > 0 => \A i \in 1..3 : pointA[i] = query.point[i]


\* C24: when boxMuller returns, the number a passed to the logarithm is not 0
\* and the number b passed to the sine is not 1; the draws it made are the
\* refused draws of 0, then a, then the refused draws of 1, then b, so it returns
\* with the first accepted draw of each loop.
C24_BoxMullerRedraws ==
    (rop = "boxMuller" /\ rout.returned) =>
        /\ ~DecimalIs(rout.value.a, 0)
        /\ ~DecimalIs(rout.value.b, 1)
        /\ \E k \in 1..(Len(rout.draws) - 1) :
              /\ \A i \in 1..(k - 1) : DecimalIs(rout.draws[i], 0)
              /\ rout.draws[k] = rout.value.a
              /\ \A i \in (k + 1)..(Len(rout.draws) - 1) : DecimalIs(rout.draws[i], 1)
              /\ rout.draws[Len(rout.draws)] = rout.value.b

C24_Witness ==
    /\ rop = "boxMuller"
    /\ rout.returned
    /\ Len(rout.draws) = 3
    /\ DecimalIs(rout.draws[1], 0)
    /\ rout.draws[2] = rout.value.a
    /\ genA # genBefore

\* C25: subtract(other) on a DualAxisRotationBuilder is add of the component-wise
\* negation of other: r.add(w).subtract(w) leaves r with its original yaw and
\* pitch, and neither call modifies w.
C25_RotationRoundTrip ==
    /\ dualOp \in {"add", "subtract"} => dualArgAfter = dualArg
    /\ (dualOp = "subtract" /\ ~dualThrown /\ dualLastAdd.made /\ dualLastAdd.other = dualArg)
          => dual = dualLastAdd.before


\* C26: every lookup noise3 makes in the permutation table uses an index of
\* 0 .. 511 and reads a defined entry of 0 .. 255, for every query point and every
\* table the constructor produces.
C26_LookupsDefined ==
    queries > 0 =>
        \A k \in 1..Len(lookups) :
           /\ lookups[k] \in 0..(2 * TableSize - 1)
           /\ PermutationAt(permutation, lookups[k]) \in 0..(TableSize - 1)

\* (2147483647 * 4194305 is not a double: the product is rounded before the offset
\* is added, and the sum is rounded again)
C26_Witness ==
    /\ queries > 0
    /\ type = "Xorshift32"
    /\ seedA = 12345
    /\ draws = 0
    /\ query.frequency = DoubleOfInt(4194305)
    /\ query.point[1] = DoubleOfInt(2147483647)
    /\ Len(lookups) = 14
    /\ lookups[1] = 180
    /\ \E k \in 1..Len(lookups) : lookups[k] >= TableSize


(***************************************************************************)
(* C27.  The draws of the constructor, told one by one: the engine is      *)
(* stepped by next() alone, and the k-th draw of the construction is the   *)
(* int() of the range the order gives it, taken on the engine after k - 1  *)
(* steps.                                                                  *)
(***************************************************************************)
\* 3 + 256 + 256
ConstructDraws == 3 + TableSize + TableSize

\* the engine after one draw of any kind
EngineNext(g) == Draw(g, [range |-> IntRangeMinMax(0, 0), op |-> "next"], 0).gen

\* <<g, the engine after 1 draw, ..., the engine after n draws>>
RECURSIVE EngineTrace(_, _)
EngineTrace(g, n) ==
    IF n = 0 THEN <<g>>
    ELSE IF n = 1 THEN <<g, EngineNext(g)>>
    ELSE LET h == n \div 2
             l == EngineTrace(g, h)
         IN l \o Tail(EngineTrace(l[h + 1], n - h))

\* the range of the k-th draw of the construction, k = 1..515
ConstructRange(k) ==
    IF k <= 3 THEN IntRangeMinMax(0, OffsetDrawMax)
    ELSE IF k <= 3 + TableSize THEN IntRangeMinMax(0, TableSize - 1)
    ELSE IntRangeMinMax(k - (4 + TableSize), TableSize - 1)

\* the value of the k-th draw of the construction on the engines of trace
ConstructValue(trace, k) == GeneratorInt(trace[k], ConstructRange(k)).value

\* the swaps of i = lo..hi on entries 0..255, the partner of i being draw 260 + i
RECURSIVE SwapsOf(_, _, _, _)
SwapsOf(table, trace, lo, hi) ==
    IF lo = hi
    THEN LET index == ConstructValue(trace, 4 + TableSize + lo)
             swapped == [table EXCEPT ![lo + 1] = table[index + 1]]
         IN [swapped EXCEPT ![index + 1] = table[lo + 1]]
    ELSE LET mid == (lo + hi) \div 2
             l == SwapsOf(table, trace, lo, mid)
         IN IF Len(l) = 0 THEN l ELSE SwapsOf(l, trace, mid + 1, hi)

\* are engine g, offset o and table p what the 515 draws on trace leave
ConstructedFrom(trace, g, o, p) ==
    /\ Len(trace) = ConstructDraws + 1
    /\ g = trace[ConstructDraws + 1]
    /\ o = [i \in 1..3 |-> ConstructValue(trace, i)]
    /\ \E t \in {SwapsOf([i \in 1..TableSize |-> ConstructValue(trace, 3 + i)],
                         trace, 0, TableSize - 1)} :
          p = t \o t

\* C27: constructing a Random (scripts) leaves the engine where 515 draws leave it,
\* the offset being draws 1..3 over [0, 2^31 - 1], the table being draws 4..259 over
\* [0, 255] shuffled with draws 260..515 over [i, 255], i = 0..255; the first call on
\* the facade starts from that engine, and its first int draw is that engine's.
C27_Step ==
    /\ (rop = "none" /\ rop' = "new" /\ version = "scripts") =>
          \E trace \in {EngineTrace(genA, ConstructDraws)} :
             ConstructedFrom(trace, genA', offset', permutation')
    /\ (rop = "new" /\ rcalls' = 1 /\ rop' \in {"sample", "shuffledClone", "weightedChoice"}) =>
          /\ genBefore' = genA
          /\ Len(rout'.draws) > 0 =>
                rout'.draws[1].value =
                   IF rop' = "weightedChoice"
                   THEN GeneratorIntBits(genA, rout'.draws[1].range).value
                   ELSE GeneratorInt(genA, rout'.draws[1].range).value
C27_ConstructDraws515 == [][C27_Step]_vars

C27_Witness ==
    /\ version = "scripts"
    /\ built
    /\ rcalls = 1
    /\ rop = "shuffledClone"
    /\ Len(rout.draws) > 0
    /\ genBefore # New(type, seedA)
    /\ rout.draws[1].value # GeneratorInt(New(type, seedA), rout.draws[1].range).value


\* C28: in every step of the registry no two entries have equal identifiers afterwards;
\* register of an identifier already registered throws and leaves the entries as
\* they were; unregister and get of an identifier not registered throw; get of a
\* registered identifier returns the value of its last successful register.
C28_Step ==
    regCalls' = regCalls + 1 =>
       /\ \A i, j \in 1..Len(entries') :
             i # j => ~(entries'[i].identifier = entries'[j].identifier)
       /\ (regOp' = "register" /\ registered[regId'] # "absent") =>
             regThrown' /\ entries' = entries
       /\ (regOp' = "register" /\ registered[regId'] = "absent" /\ TypeTest(regValue')) =>
             /\ ~regThrown'
             /\ \E i \in 1..Len(entries') :
                   entries'[i] = [value |-> regValue', identifier |-> regId']
       /\ (regOp' \in {"unregister", "get"} /\ registered[regId'] = "absent") =>
             regThrown' /\ entries' = entries
       /\ (regOp' = "unregister" /\ registered[regId'] # "absent") =>
             /\ ~regThrown'
             /\ \A i \in 1..Len(entries') : entries'[i].identifier # regId'
       /\ (regOp' = "get" /\ registered[regId'] # "absent") =>
             /\ ~regThrown'
             /\ regOut'.value = registered[regId']
             /\ entries' = entries
C28_RegistryKeysUnique == [][C28_Step]_vars

C28_Witness ==
    /\ regOp = "get"
    /\ ~regThrown
    /\ regCalls = MaxRegistryCalls
    /\ Len(entries) = 2
    /\ regId = entries[2].identifier
    /\ regOut.value = "v2"
    /\ entries[1].value = "v1"
    /\ entries[1].identifier.value = regId.value


\* C29: after hidePrototypeOf(C) followed by unhidePrototypeOf(C), C.prototype is not
\* in the hidden set.
C29_UnhideUndoesHide ==
    (/\ serOp = "unhidePrototypeOf"
     /\ ~serThrown
     /\ serPrev = [arg |-> serArg, op |-> "hidePrototypeOf"]) =>
        PrototypeOf(serArg) \notin hiddenPrototypes


\* C30: FiniteRange.maxOnly(m) returns, for every finite m, a range with getMax() = m
\* and getMin() <= m, and clamp on it never returns a value greater than m.
C30_MaxOnlyUpperBound ==
    (ranged.how = "maxOnly" /\ NumberIsFinite(ranged.asked[1])) =>
       /\ ~ranged.made.thrown
       /\ RangeGetMax(ranged.made) = ranged.asked[1]
       /\ ~NumLt(ranged.asked[1], RangeGetMin(ranged.made))
       /\ rangeOp = "clamp" => ~NumLt(ranged.asked[1], clampOut)


====
